---------------------------- MODULE Spec2Model ----------------------------
(***************************************************************************)
(* Model of the audio-library-cleanup engine: the duplicate resolver       *)
(* (cleanupDuplicates), the format resolver (cleanupMp3Flac), the fuzzy    *)
(* directory merger (cleanupDirectories) and the reclaimer                 *)
(* (cleanupEmptyDirs), over an abstract case-sensitive file system.        *)
(*                                                                         *)
(* A file or directory name is a sequence of characters (one-element        *)
(* strings; "e_acute" stands for the precomposed U+00E9 and "comb_acute"    *)
(* for the combining mark U+0301).  A path is the sequence of names from    *)
(* the scan root; the scan root itself is the empty path.                   *)
(***************************************************************************)
EXTENDS Integers, Sequences, FiniteSets, TLC

VARIABLES
    fs,         \* the library tree: path -> node, for every existing path
    fs0,        \* the tree as it was when the command started (history)
    lsReverse,  \* directory-listing order of this file system (readdir)
    dryRun,     \* options.dryRun
    skipPaths,  \* getPathsToSkip(directory): lowercase paths
    queue,      \* tasks the command has still to start
    task,       \* the pass that is running, or "none"
    pc,         \* position inside the running pass
    files,      \* scan result of the running pass (AudioFile / DirectoryInfo)
    work,       \* groups (or directories) the pass has still to process
    cur,        \* the group being processed
    lists,      \* the reclaimer's emptyDirs / noAudioDirs / ... lists
    counters,   \* the running pass's counters
    results,    \* counters records written by writeScriptResults
    merges,     \* history: <<source, target>> of every mergeDirectories call
    dirSize,    \* what fs.statSync(dir).size reports on this platform
    cleanupInProgress, \* cleanupInProgressGlobal; FALSE once interrupted
    interrupted, \* history: the SIGINT handler has run since the command started
    unreadable, \* the directories whose listing cannot be read (readdirSync raises)
    undeletable, \* the files that cannot be removed (unlinkSync raises)
    errorLogged \* the driver has reported an error of a task as a generic error

vars == <<fs, fs0, lsReverse, dryRun, skipPaths, queue, task, pc, files,
          work, cur, lists, counters, results, merges, dirSize,
          cleanupInProgress, interrupted, unreadable, undeletable, errorLogged>>

-----------------------------------------------------------------------------
(* Bounds of the model *)

MaxSize == 2        \* file sizes range over 1..MaxSize
MaxFiles == 3       \* at most MaxFiles files are placed in the initial tree
MaxTime == 1        \* initial directory mtimes range over 0..MaxTime
MaxDepth == 4       \* longest path, in segments, the file system accepts

-----------------------------------------------------------------------------
(* Generic helpers *)

Max(S) == CHOOSE x \in S : \A y \in S : y <= x

Last(s) == s[Len(s)]

IsPrefix(p, q) == Len(p) <= Len(q) /\ SubSeq(q, 1, Len(p)) = p

IsProperPrefix(p, q) == Len(p) < Len(q) /\ SubSeq(q, 1, Len(p)) = p

DropLast(s) == SubSeq(s, 1, Len(s) - 1)

RECURSIVE FlattenSeq(_)
FlattenSeq(ss) == IF ss = <<>> THEN <<>> ELSE Head(ss) \o FlattenSeq(Tail(ss))

\* the elements of a sequence without repetitions, in first-occurrence order
\* (the key order of a JavaScript Map filled by has/set)
RECURSIVE Distinct(_)
Distinct(s) ==
    IF s = <<>> THEN <<>>
    ELSE LET r == Distinct(DropLast(s))
         IN IF \E i \in 1..Len(r) : r[i] = Last(s) THEN r ELSE Append(r, Last(s))

-----------------------------------------------------------------------------
(* Characters and strings *)

\* String.prototype.toLowerCase, per character
toLowerCaseChar(c) ==
    CASE c = "A" -> "a"
      [] c = "C" -> "c"
      [] c = "D" -> "d"
      [] c = "E" -> "e"
      [] c = "F" -> "f"
      [] c = "M" -> "m"
      [] c = "P" -> "p"
      [] c = "S" -> "s"
      [] c = "T" -> "t"
      [] c = "E_acute" -> "e_acute"
      [] OTHER -> c

toLowerCase(s) == [i \in 1..Len(s) |-> toLowerCaseChar(s[i])]

\* String.prototype.normalize('NFD'): canonical decomposition
NFDChar(c) ==
    CASE c = "e_acute" -> <<"e", "comb_acute">>
      [] c = "E_acute" -> <<"E", "comb_acute">>
      [] OTHER -> <<c>>

NFD(s) == FlattenSeq([i \in 1..Len(s) |-> NFDChar(s[i])])

\* String.prototype.normalize('NFC'): decomposition, then canonical composition
RECURSIVE Compose(_)
Compose(s) ==
    IF Len(s) < 2 THEN s
    ELSE IF s[2] = "comb_acute" /\ s[1] = "e"
         THEN <<"e_acute">> \o Compose(SubSeq(s, 3, Len(s)))
    ELSE IF s[2] = "comb_acute" /\ s[1] = "E"
         THEN <<"E_acute">> \o Compose(SubSeq(s, 3, Len(s)))
    ELSE <<s[1]>> \o Compose(Tail(s))

NFC(s) == Compose(NFD(s))

IsCombiningMark(c) == c = "comb_acute"      \* /[\u0300-\u036f]/

IsSpace(c) == c = " "                       \* \s

IsDigit(c) == c \in {"1", "2", "3"}         \* \d

\* String.prototype.trim
RECURSIVE TrimLeft(_)
TrimLeft(s) == IF s # <<>> /\ IsSpace(Head(s)) THEN TrimLeft(Tail(s)) ELSE s

RECURSIVE TrimRight(_)
TrimRight(s) == IF s # <<>> /\ IsSpace(Last(s)) THEN TrimRight(DropLast(s)) ELSE s

Trim(s) == TrimLeft(TrimRight(s))

\* .replace(/\s+/g, ' ')
RECURSIVE CollapseSpaces(_)
CollapseSpaces(s) ==
    IF s = <<>> THEN <<>>
    ELSE IF IsSpace(Head(s))
         THEN <<" ">> \o CollapseSpaces(TrimLeft(s))
         ELSE <<Head(s)>> \o CollapseSpaces(Tail(s))

\* .replace(/&/g, 'and')
ReplaceAmpersand(s) ==
    FlattenSeq([i \in 1..Len(s) |-> IF s[i] = "&" THEN <<"a", "n", "d">> ELSE <<s[i]>>])

\* .replace(/[\u0300-\u036f]/g, '')
StripMarks(s) == SelectSeq(s, LAMBDA c : ~IsCombiningMark(c))

normalizeForFuzzyMatching(text) ==
    Trim(CollapseSpaces(ReplaceAmpersand(StripMarks(NFD(toLowerCase(text))))))

hasAccents(text) ==
    \/ \E i \in 1..Len(text) : IsCombiningMark(text[i])
    \/ Len(NFD(text)) # Len(NFC(text))

\* Start of the match of /\(\d+\)$/ in s, or 0 when there is none.
CounterStart(s) ==
    LET n == Len(s)
        J == {j \in 1..n : /\ s[j] = "("
                           /\ s[n] = ")"
                           /\ j + 1 <= n - 1
                           /\ \A k \in (j + 1)..(n - 1) : IsDigit(s[k])}
    IN IF J = {} THEN 0 ELSE Max(J)

\* name.replace(/\(\d+\)$/, '')
StripCounter(s) ==
    IF CounterStart(s) = 0 THEN s ELSE SubSeq(s, 1, CounterStart(s) - 1)

\* keepFile.name.match(/(.+)\s+\((\d+)\)$/): does it match, and its group 1.
\* The greedy (.+) leaves exactly one whitespace character to \s+.
HasNumericSuffix(s) ==
    LET j == CounterStart(s) IN j >= 3 /\ IsSpace(s[j - 1])

NumericSuffixBase(s) == SubSeq(s, 1, CounterStart(s) - 2)

\* path.extname of a base name: from the last "." on, unless there is none or
\* it is the first character
LastDot(s) ==
    LET D == {i \in 1..Len(s) : s[i] = "."} IN IF D = {} THEN 0 ELSE Max(D)

extname(s) == IF LastDot(s) <= 1 THEN <<>> ELSE SubSeq(s, LastDot(s), Len(s))

\* path.parse(p).name: the base name without its extension
parseName(s) == SubSeq(s, 1, Len(s) - Len(extname(s)))

AUDIO_EXTENSIONS ==
    {<<".", "m", "p", "3">>, <<".", "f", "l", "a", "c">>, <<".", "w", "a", "v">>}

isAudioFile(filename) == toLowerCase(extname(filename)) \in AUDIO_EXTENSIONS

\* total order used to present a directory listing: lexicographic on a fixed
\* character order
CharRank(c) ==
    CASE c = " " -> 1 [] c = "&" -> 2 [] c = "(" -> 3 [] c = ")" -> 4
      [] c = "." -> 5 [] c = "1" -> 6 [] c = "2" -> 7 [] c = "3" -> 8
      [] c = "A" -> 9 [] c = "B" -> 10 [] c = "C" -> 11 [] c = "D" -> 12 [] c = "E" -> 13
      [] c = "F" -> 14 [] c = "M" -> 15 [] c = "P" -> 16 [] c = "S" -> 17
      [] c = "T" -> 18
      [] c = "a" -> 20 [] c = "c" -> 21 [] c = "d" -> 22 [] c = "e" -> 23
      [] c = "f" -> 24 [] c = "j" -> 25 [] c = "l" -> 26 [] c = "m" -> 27
      [] c = "n" -> 28 [] c = "p" -> 29 [] c = "s" -> 30 [] c = "t" -> 31
      [] c = "v" -> 32 [] c = "w" -> 33 [] c = "x" -> 34
      [] c = "E_acute" -> 40 [] c = "e_acute" -> 41 [] c = "comb_acute" -> 42
      [] OTHER -> 50

RECURSIVE NameLess(_, _)
NameLess(a, b) ==
    IF b = <<>> THEN FALSE
    ELSE IF a = <<>> THEN TRUE
    ELSE IF CharRank(Head(a)) # CharRank(Head(b))
         THEN CharRank(Head(a)) < CharRank(Head(b))
         ELSE NameLess(Tail(a), Tail(b))


-----------------------------------------------------------------------------
(* The file system.  A node is [kind, size, mtime, id]: a file carries its   *)
(* size and the identity of its content (the path it had in the initial     *)
(* tree); a directory carries its modification time.                        *)

FileNode(size, id) == [kind |-> "file", size |-> size, mtime |-> 0, id |-> id]

DirNode(mtime) == [kind |-> "dir", size |-> 0, mtime |-> mtime, id |-> <<>>]

dirname(p) == DropLast(p)                         \* path.dirname

basename(p) == Last(p)                            \* path.basename

existsSync(f, p) == p = <<>> \/ p \in DOMAIN f

IsDir(f, p) == p = <<>> \/ (p \in DOMAIN f /\ f[p].kind = "dir")

IsFile(f, p) == p \in DOMAIN f /\ f[p].kind = "file"

Entries(f, d) == {p \in DOMAIN f : Len(p) = Len(d) + 1 /\ IsPrefix(d, p)}

Subtree(f, d) == {p \in DOMAIN f : IsPrefix(d, p)}

Restrict(f, S) == [p \in S |-> f[p]]

\* a time later than every modification time in the tree
NewTime(f) == 1 + Max({f[p].mtime : p \in DOMAIN f} \cup {0})

\* an entry was added to or removed from directory d
Touch(f, d, t) == IF d \in DOMAIN f THEN [f EXCEPT ![d].mtime = t] ELSE f

RECURSIVE SortNames(_)
SortNames(S) ==
    IF S = {} THEN <<>>
    ELSE LET m == CHOOSE x \in S : \A y \in S : x = y \/ NameLess(x, y)
         IN <<m>> \o SortNames(S \ {m})

Reverse(s) == [i \in 1..Len(s) |-> s[Len(s) + 1 - i]]

\* fs.readdirSync(d): the names in d, in this file system's listing order
readdirSync(f, d) ==
    LET names == SortNames({basename(p) : p \in Entries(f, d)})
    IN IF lsReverse THEN Reverse(names) ELSE names

\* fs.unlinkSync(p), for an existing file p
unlinkSync(f, p) ==
    Touch(Restrict(f, DOMAIN f \ {p}), dirname(p), NewTime(f))

\* fs.renameSync(old, new) succeeds for an existing file whose new parent is a
\* directory and whose new path is not a directory; it replaces a file at new
CanRename(f, old, new) ==
    IsFile(f, old) /\ IsDir(f, dirname(new)) /\ ~IsDir(f, new)

renameSync(f, old, new) ==
    LET g == [p \in (DOMAIN f \ {old}) \cup {new} |-> IF p = new THEN f[old] ELSE f[p]]
    IN Touch(Touch(g, dirname(old), NewTime(f)), dirname(new), NewTime(f))

\* fs.copyFileSync(src, dst)
CanCopy(f, src, dst) ==
    IsFile(f, src) /\ IsDir(f, dirname(dst)) /\ ~IsDir(f, dst)

copyFileSync(f, src, dst) ==
    LET g == [p \in DOMAIN f \cup {dst} |-> IF p = dst THEN f[src] ELSE f[p]]
    IN IF dst \in DOMAIN f THEN g ELSE Touch(g, dirname(dst), NewTime(f))

\* fs.mkdirSync(p, {recursive: true}) succeeds when no prefix of p is a file
\* and p is no longer than the file system accepts
CanMkdir(f, p) ==
    Len(p) <= MaxDepth /\ \A i \in 1..Len(p) : ~IsFile(f, SubSeq(p, 1, i))

mkdirSync(f, p) ==
    LET new == {SubSeq(p, 1, i) : i \in 1..Len(p)} \ DOMAIN f
        t == NewTime(f)
        g == [q \in DOMAIN f \cup new |-> IF q \in new THEN DirNode(t) ELSE f[q]]
    IN IF new = {} THEN f
       ELSE Touch(g, dirname(CHOOSE q \in new : \A r \in new : Len(q) <= Len(r)), t)

\* fs.rmdirSync(d, {recursive: true}) / deleteDirectory
rmdirSync(f, d) ==
    Touch(Restrict(f, DOMAIN f \ Subtree(f, d)), dirname(d), NewTime(f))

\* traverseDirectory: the paths handed to the callback, in call order (every
\* entry of a directory in listing order, a subdirectory's content right
\* after the subdirectory); a directory that cannot be read is logged and
\* yields nothing
RECURSIVE traverseDirectory(_, _)
traverseDirectory(f, d) ==
    LET names == IF d \in unreadable THEN <<>> ELSE readdirSync(f, d)
    IN FlattenSeq([i \in 1..Len(names) |->
           LET full == Append(d, names[i])
           IN <<full>> \o (IF IsDir(f, full) THEN traverseDirectory(f, full) ELSE <<>>)])

\* the AudioFile record the scan builds for path p
AudioFile(f, p) ==
    [path |-> p,
     name |-> parseName(basename(p)),
     size |-> f[p].size,
     extension |-> toLowerCase(extname(basename(p)))]

getAudioFilesInDirectory(f) ==
    LET visited == traverseDirectory(f, <<>>)
        audio == SelectSeq(visited, LAMBDA p : ~IsDir(f, p) /\ isAudioFile(basename(p)))
    IN [i \in 1..Len(audio) |-> AudioFile(f, audio[i])]


-----------------------------------------------------------------------------
(* State shared by the passes *)

NoFile == [path |-> <<>>, name |-> <<>>, size |-> 0, extension |-> <<>>]

NoGroup == [active |-> FALSE, keep |-> NoFile, dels |-> <<>>, group |-> <<>>]

NoLists == [emptyDirs |-> <<>>, noAudioDirs |-> <<>>, potentialCaseIssues |-> {},
            errorDirs |-> {}, skippedDirs |-> {}, processedDirLowerCase |-> {},
            potentialProblemPaths |-> {}, nextEmpty |-> 1, nextNoAudio |-> 1]

ZeroCounters == [duplicateFilesDeleted |-> 0, filesRenamed |-> 0,
                 mp3FilesDeleted |-> 0, directoriesMergedOrProcessed |-> 0]

\* the groups of a Map<context, Map<key, item[]>> filled item by item, in
\* the order the nested for..of loops visit them; ctx[i] and key[i] are the
\* context and the key of items[i]; an item whose context is empty is left out
GroupBy(items, ctx, key) ==
    LET kept == SelectSeq([i \in 1..Len(items) |-> i], LAMBDA i : ctx[i] # <<>>)
        ctxs == Distinct([k \in 1..Len(kept) |-> ctx[kept[k]]])
        InCtx(c) == SelectSeq(kept, LAMBDA i : ctx[i] = c)
        KeysOf(c) == Distinct([k \in 1..Len(InCtx(c)) |-> key[InCtx(c)[k]]])
        Members(c, k) == SelectSeq(InCtx(c), LAMBDA i : key[i] = k)
        GroupsOf(c) ==
            [k \in 1..Len(KeysOf(c)) |->
                [dir |-> c, key |-> KeysOf(c)[k],
                 members |-> [n \in 1..Len(Members(c, KeysOf(c)[k])) |->
                                 items[Members(c, KeysOf(c)[k])[n]]]]]
    IN FlattenSeq([i \in 1..Len(ctxs) |-> GroupsOf(ctxs[i])])

\* path.dirname(file.path); the scan root has the non-empty name of the library
ParentDir(file) == <<"/">> \o dirname(file.path)

\* filesByDirectory: audio files by parent directory, then by base name
GroupFiles(fl, key) == GroupBy(fl, [i \in 1..Len(fl) |-> ParentDir(fl[i])], key)

\* fileGroup.sort((a, b) => b.size - a.size): a stable sort, largest first
RECURSIVE SortBySizeDesc(_)
SortBySizeDesc(s) ==
    IF s = <<>> THEN <<>>
    ELSE LET m == Max({s[i].size : i \in 1..Len(s)})
             k == CHOOSE i \in 1..Len(s) :
                      s[i].size = m /\ \A j \in 1..(i - 1) : s[j].size # m
         IN <<s[k]>> \o SortBySizeDesc(SubSeq(s, 1, k - 1) \o SubSeq(s, k + 1, Len(s)))

-----------------------------------------------------------------------------
(* The duplicate resolver: cleanupDuplicates *)

\* file.name.replace(/\(\d+\)$/, '').trim()
DupBaseName(file) == Trim(StripCounter(file.name))

\* path.join(path.dirname(keepFile.path), `${baseName}${path.extname(keepFile.path)}`)
DupNewFilePath(keepFile) ==
    Append(dirname(keepFile.path),
           NumericSuffixBase(keepFile.name) \o extname(basename(keepFile.path)))

\* lines 22-65: scan, group by directory and base name.  The scan awaits
\* while counting; an interruption handled there makes the checks of
\* validateCleanupInProgress raise out of the pass
DupScan ==
    /\ task = "dup" /\ pc = "scan"
    /\ IF cleanupInProgress
       THEN /\ files' = getAudioFilesInDirectory(fs)
            /\ work' = GroupFiles(files', [i \in 1..Len(files') |-> DupBaseName(files'[i])])
            /\ pc' = "loop"
       ELSE /\ pc' = "halted"
            /\ UNCHANGED <<files, work>>
    /\ counters' = ZeroCounters
    /\ UNCHANGED <<fs, fs0, lsReverse, dryRun, skipPaths, queue, task, cur, lists,
                   results, merges, dirSize, cleanupInProgress, interrupted,
                   unreadable, undeletable, errorLogged>>

\* lines 77-95: take the next group; a group of more than one file is sorted
\* by size and split into the keeper and the files to delete
DupNextGroup ==
    /\ task = "dup" /\ pc = "loop" /\ ~cur.active /\ work # <<>>
    /\ LET fileGroup == SortBySizeDesc(Head(work).members)
       IN cur' = IF Len(fileGroup) > 1
                 THEN [active |-> TRUE, keep |-> Head(fileGroup), dels |-> Tail(fileGroup),
                       group |-> Head(work).members]
                 ELSE NoGroup
    /\ work' = Tail(work)
    /\ UNCHANGED <<fs, fs0, lsReverse, dryRun, skipPaths, queue, task, pc, files,
                   lists, counters, results, merges, dirSize,
                   cleanupInProgress, interrupted,
                   unreadable, undeletable, errorLogged>>

\* lines 97-110: one iteration of the deletion loop.  deleteFile has no
\* handler around it: unlinking a path that is no file, or a file that cannot
\* be removed, raises out of the pass
DupDelete ==
    /\ task = "dup" /\ pc = "loop" /\ cur.active /\ cur.dels # <<>>
    /\ LET file == Head(cur.dels)
       IN IF dryRun
          THEN /\ counters' = [counters EXCEPT !.duplicateFilesDeleted = @ + 1]
               /\ cur' = [cur EXCEPT !.dels = Tail(@)]
               /\ UNCHANGED <<fs, pc>>
          ELSE IF IsFile(fs, file.path) /\ file.path \notin undeletable
          THEN /\ fs' = unlinkSync(fs, file.path)
               /\ counters' = [counters EXCEPT !.duplicateFilesDeleted = @ + 1]
               /\ cur' = [cur EXCEPT !.dels = Tail(@)]
               /\ UNCHANGED pc
          ELSE /\ pc' = "threw"
               /\ UNCHANGED <<fs, counters, cur>>
    /\ UNCHANGED <<fs0, lsReverse, dryRun, skipPaths, queue, task, files, work,
                   lists, results, merges, dirSize,
                   cleanupInProgress, interrupted,
                   unreadable, undeletable, errorLogged>>

\* a variant of the rename that does not wait for the deletion loop to end
DupRenameEarly ==
    /\ task = "dup" /\ pc = "loop" /\ cur.active
    /\ LET keepFile == cur.keep
           newFilePath == DupNewFilePath(keepFile)
       IN IF ~HasNumericSuffix(keepFile.name)
          THEN UNCHANGED <<fs, counters>>
          ELSE IF dryRun
          THEN /\ counters' = [counters EXCEPT !.filesRenamed = @ + 1]
               /\ UNCHANGED fs
          ELSE IF CanRename(fs, keepFile.path, newFilePath)
          THEN /\ fs' = renameSync(fs, keepFile.path, newFilePath)
               /\ counters' = [counters EXCEPT !.filesRenamed = @ + 1]
          ELSE UNCHANGED <<fs, counters>>
    /\ cur' = NoGroup
    /\ UNCHANGED <<fs0, lsReverse, dryRun, skipPaths, queue, task, pc, files, work,
                   lists, results, merges, dirSize,
                   cleanupInProgress, interrupted,
                   unreadable, undeletable, errorLogged>>

\* lines 112-133: after the deletions, a keeper whose name carries a numeric
\* suffix is renamed to the name without it
DupRename ==
    /\ task = "dup" /\ pc = "loop" /\ cur.active /\ cur.dels = <<>>
    /\ LET keepFile == cur.keep
           newFilePath == DupNewFilePath(keepFile)
       IN IF ~HasNumericSuffix(keepFile.name)
          THEN UNCHANGED <<fs, counters>>
          ELSE IF dryRun
          THEN /\ counters' = [counters EXCEPT !.filesRenamed = @ + 1]
               /\ UNCHANGED fs
          ELSE IF CanRename(fs, keepFile.path, newFilePath)
          THEN /\ fs' = renameSync(fs, keepFile.path, newFilePath)
               /\ counters' = [counters EXCEPT !.filesRenamed = @ + 1]
          ELSE UNCHANGED <<fs, counters>>
    /\ cur' = NoGroup
    /\ UNCHANGED <<fs0, lsReverse, dryRun, skipPaths, queue, task, pc, files, work,
                   lists, results, merges, dirSize,
                   cleanupInProgress, interrupted,
                   unreadable, undeletable, errorLogged>>

\* lines 138-151: the loops are over; write the counters record
DupFinish ==
    /\ task = "dup" /\ pc = "loop" /\ ~cur.active /\ work = <<>>
    /\ results' = results \cup
           {[script |-> "cleanupDuplicates",
             data |-> [duplicateFilesDeleted |-> counters.duplicateFilesDeleted,
                       filesRenamed |-> counters.filesRenamed]]}
    /\ pc' = "done"
    /\ UNCHANGED <<fs, fs0, lsReverse, dryRun, skipPaths, queue, task, files, work,
                   cur, lists, counters, merges, dirSize,
                   cleanupInProgress, interrupted,
                   unreadable, undeletable, errorLogged>>

-----------------------------------------------------------------------------
(* The format resolver: cleanupMp3Flac *)

\* normalizeForFuzzyMatching(file.name.replace(/\(\d+\)$/, ''))
FmtBaseName(file) == normalizeForFuzzyMatching(StripCounter(file.name))

\* a variant that takes any group for one that holds a .flac file
FmtHasAnyFile(fileGroup) == Len(fileGroup) > 0

\* a variant that lets the sizes decide: a .flac file counts only if no file
\* of the group is larger
FmtHasFlacBySize(fileGroup) ==
    \E i \in 1..Len(fileGroup) :
        /\ fileGroup[i].extension = <<".", "f", "l", "a", "c">>
        /\ \A j \in 1..Len(fileGroup) : fileGroup[j].size <= fileGroup[i].size

\* fileGroup.some(file => file.extension === '.flac')
FmtHasFlac(fileGroup) ==
    \E i \in 1..Len(fileGroup) : fileGroup[i].extension = <<".", "f", "l", "a", "c">>

\* a variant that takes every file of the group that is not a .flac file
FmtLossyFiles(fileGroup) ==
    SelectSeq(fileGroup, LAMBDA file : file.extension # <<".", "f", "l", "a", "c">>)

\* fileGroup.filter(file => file.extension === '.mp3')
FmtMp3Files(fileGroup) ==
    SelectSeq(fileGroup, LAMBDA file : file.extension = <<".", "m", "p", "3">>)

\* lines 73-108 of the pass: scan and group, as the duplicate resolver does
FmtScan ==
    /\ task = "fmt" /\ pc = "scan"
    /\ IF cleanupInProgress
       THEN /\ files' = getAudioFilesInDirectory(fs)
            /\ work' = GroupFiles(files', [i \in 1..Len(files') |-> FmtBaseName(files'[i])])
            /\ pc' = "loop"
       ELSE /\ pc' = "halted"
            /\ UNCHANGED <<files, work>>
    /\ counters' = ZeroCounters
    /\ UNCHANGED <<fs, fs0, lsReverse, dryRun, skipPaths, queue, task, cur, lists,
                   results, merges, dirSize, cleanupInProgress, interrupted,
                   unreadable, undeletable, errorLogged>>

\* lines 130-135: the next group; it is acted on when it holds a .flac file
\* and at least one .mp3 file
FmtNextGroup ==
    /\ task = "fmt" /\ pc = "loop" /\ ~cur.active /\ work # <<>>
    /\ LET fileGroup == Head(work).members
           mp3Files == FmtMp3Files(fileGroup)
       IN cur' = IF FmtHasFlac(fileGroup) /\ Len(mp3Files) > 0
                 THEN [active |-> TRUE, keep |-> NoFile, dels |-> mp3Files,
                       group |-> fileGroup]
                 ELSE NoGroup
    /\ work' = Tail(work)
    /\ UNCHANGED <<fs, fs0, lsReverse, dryRun, skipPaths, queue, task, pc, files,
                   lists, counters, results, merges, dirSize, cleanupInProgress, interrupted,
                   unreadable, undeletable, errorLogged>>

\* lines 145-154: one iteration of the loop over mp3Files; an error raised
\* by deleteFile leaves the pass
FmtDelete ==
    /\ task = "fmt" /\ pc = "loop" /\ cur.active
    /\ LET mp3File == Head(cur.dels)
           rest == IF Tail(cur.dels) = <<>> THEN NoGroup
                   ELSE [cur EXCEPT !.dels = Tail(@)]
       IN IF dryRun
          THEN /\ counters' = [counters EXCEPT !.mp3FilesDeleted = @ + 1]
               /\ cur' = rest
               /\ UNCHANGED <<fs, pc>>
          ELSE IF IsFile(fs, mp3File.path) /\ mp3File.path \notin undeletable
          THEN /\ fs' = unlinkSync(fs, mp3File.path)
               /\ counters' = [counters EXCEPT !.mp3FilesDeleted = @ + 1]
               /\ cur' = rest
               /\ UNCHANGED pc
          ELSE /\ pc' = "threw"
               /\ UNCHANGED <<fs, counters, cur>>
    /\ UNCHANGED <<fs0, lsReverse, dryRun, skipPaths, queue, task, files, work,
                   lists, results, merges, dirSize, cleanupInProgress, interrupted,
                   unreadable, undeletable, errorLogged>>

\* lines 159-169: the loops are over; write the counters record
FmtFinish ==
    /\ task = "fmt" /\ pc = "loop" /\ ~cur.active /\ work = <<>>
    /\ results' = results \cup
           {[script |-> "cleanupMp3Flac",
             data |-> [mp3FilesDeleted |-> counters.mp3FilesDeleted]]}
    /\ pc' = "done"
    /\ UNCHANGED <<fs, fs0, lsReverse, dryRun, skipPaths, queue, task, files, work,
                   cur, lists, counters, merges, dirSize, cleanupInProgress, interrupted,
                   unreadable, undeletable, errorLogged>>

-----------------------------------------------------------------------------
(* The directory merger: cleanupDirectories *)

\* a variant of getAlbumContext that cuts the parent path to its first two segments
getAlbumContextTwoLevel(filePath) ==
    IF Len(filePath) >= 2
    THEN SubSeq(filePath, 1, IF Len(filePath) - 1 < 2 THEN Len(filePath) - 1 ELSE 2)
    ELSE IF Len(filePath) = 1 THEN <<filePath[1]>>
    ELSE <<>>

\* getAlbumContext(filePath, baseDir), as the sequence of the joined segments
getAlbumContext(filePath) ==
    IF Len(filePath) >= 2 THEN DropLast(filePath)
    ELSE IF Len(filePath) = 1 THEN <<filePath[1]>>
    ELSE <<>>

getSubfolderCount(f, dirPath) == Cardinality({p \in Entries(f, dirPath) : IsDir(f, p)})

getDirectoryLastModified(f, dirPath) == f[dirPath].mtime

\* the DirectoryInfo record the scan builds for directory p
DirectoryInfo(f, p) ==
    [path |-> p,
     name |-> basename(p),
     subfolderCount |-> getSubfolderCount(f, p),
     lastModified |-> getDirectoryLastModified(f, p),
     hasAccents |-> hasAccents(basename(p))]

DirContext(dir) == getAlbumContext(dir.path)

DirNormalizedName(dir) == normalizeForFuzzyMatching(dir.name)

\* dirs.sort((a, b) => b.lastModified.getTime() - a.lastModified.getTime())
RECURSIVE SortByModifiedDesc(_)
SortByModifiedDesc(s) ==
    IF s = <<>> THEN <<>>
    ELSE LET m == Max({s[i].lastModified : i \in 1..Len(s)})
             k == CHOOSE i \in 1..Len(s) :
                      s[i].lastModified = m /\ \A j \in 1..(i - 1) : s[j].lastModified # m
         IN <<s[k]>> \o SortByModifiedDesc(SubSeq(s, 1, k - 1) \o SubSeq(s, k + 1, Len(s)))

\* a variant of the selection without the accent priority
selectDirectoryToKeepNoAccents(dirs) ==
    LET maxSubfolders == Max({dirs[i].subfolderCount : i \in 1..Len(dirs)})
        withMaxSubfolders == SelectSeq(dirs, LAMBDA dir : dir.subfolderCount = maxSubfolders)
    IN SortByModifiedDesc(withMaxSubfolders)[1]

selectDirectoryToKeep(dirs) ==
    LET withAccents == SelectSeq(dirs, LAMBDA dir : dir.hasAccents)
        dirs1 == IF Len(withAccents) > 0 THEN withAccents ELSE dirs
        maxSubfolders == Max({dirs1[i].subfolderCount : i \in 1..Len(dirs1)})
        withMaxSubfolders == SelectSeq(dirs1, LAMBDA dir : dir.subfolderCount = maxSubfolders)
    IN IF Len(withAccents) = 1 THEN withAccents[1]
       ELSE IF Len(withMaxSubfolders) = 1 THEN withMaxSubfolders[1]
       ELSE SortByModifiedDesc(withMaxSubfolders)[1]

\* outcome of a sequence of file-system calls: the tree, and whether a call raised
Ok(f) == [fs |-> f, threw |-> FALSE]

Throw(f) == [fs |-> f, threw |-> TRUE]

\* fs.statSync(p).size
StatSize(f, p) == IF IsDir(f, p) THEN dirSize ELSE f[p].size

RECURSIVE mergeDirectories(_, _, _)
RECURSIVE MergeItems(_, _, _, _)

\* lines 205-230: the loop over the items read from the source directory
MergeItems(r, items, sourcePath, targetPath) ==
    IF r.threw \/ items = <<>> THEN r
    ELSE LET f == r.fs
             sourceItemPath == Append(sourcePath, Head(items))
             targetItemPath == Append(targetPath, Head(items))
             next ==
                 IF ~existsSync(f, sourceItemPath) THEN Throw(f)
                 ELSE IF IsDir(f, sourceItemPath)
                 THEN mergeDirectories(f, sourceItemPath, targetItemPath)
                 ELSE IF existsSync(f, targetItemPath)
                 THEN IF f[sourceItemPath].size > StatSize(f, targetItemPath)
                      THEN IF IsFile(f, targetItemPath)
                           THEN Ok(copyFileSync(unlinkSync(f, targetItemPath),
                                                sourceItemPath, targetItemPath))
                           ELSE Throw(f)
                      ELSE Ok(f)
                 ELSE IF CanCopy(f, sourceItemPath, targetItemPath)
                      THEN Ok(copyFileSync(f, sourceItemPath, targetItemPath))
                      ELSE Throw(f)
         IN MergeItems(next, Tail(items), sourcePath, targetPath)

mergeDirectories(f, sourcePath, targetPath) ==
    LET r0 == IF existsSync(f, targetPath) THEN Ok(f)
              ELSE IF CanMkdir(f, targetPath) THEN Ok(mkdirSync(f, targetPath))
              ELSE Throw(f)
    IN IF r0.threw THEN r0
       ELSE IF ~(sourcePath \in DOMAIN r0.fs /\ IsDir(r0.fs, sourcePath)) THEN Throw(r0.fs)
       ELSE LET r1 == MergeItems(r0, readdirSync(r0.fs, sourcePath), sourcePath, targetPath)
            IN IF r1.threw THEN r1 ELSE Ok(rmdirSync(r1.fs, sourcePath))

\* lines 54-117: scan every directory, group by context and normalized name
DirScan ==
    /\ task = "dir" /\ pc = "scan"
    /\ LET visited == traverseDirectory(fs, <<>>)
           dirs == SelectSeq(visited, LAMBDA p : IsDir(fs, p))
       IN files' = [i \in 1..Len(dirs) |-> DirectoryInfo(fs, dirs[i])]
    /\ work' = GroupBy(files',
                     [i \in 1..Len(files') |-> DirContext(files'[i])],
                     [i \in 1..Len(files') |-> DirNormalizedName(files'[i])])
    /\ counters' = ZeroCounters
    /\ pc' = "loop"
    /\ UNCHANGED <<fs, fs0, lsReverse, dryRun, skipPaths, queue, task, cur, lists,
                   results, merges, dirSize, cleanupInProgress, interrupted,
                   unreadable, undeletable, errorLogged>>

\* lines 127-143: the next group; one of more than a single directory gets a
\* directory to keep, the others are to be merged into it
DirNextGroup ==
    /\ task = "dir" /\ pc = "loop" /\ ~cur.active /\ work # <<>>
    /\ LET dirGroup == Head(work).members
           dirToKeep == selectDirectoryToKeep(dirGroup)
       IN cur' = IF Len(dirGroup) > 1
                 THEN [active |-> TRUE, keep |-> dirToKeep,
                       dels |-> SelectSeq(dirGroup, LAMBDA dir : dir.path # dirToKeep.path),
                       group |-> dirGroup]
                 ELSE NoGroup
    /\ work' = Tail(work)
    /\ UNCHANGED <<fs, fs0, lsReverse, dryRun, skipPaths, queue, task, pc, files,
                   lists, counters, results, merges, dirSize, cleanupInProgress, interrupted,
                   unreadable, undeletable, errorLogged>>

\* lines 146-160: one iteration of the loop over the group, for a directory
\* other than the kept one.  An error raised inside mergeDirectories leaves
\* the pass.
DirMerge ==
    /\ task = "dir" /\ pc = "loop" /\ cur.active
    /\ LET dir == Head(cur.dels)
           rest == IF Tail(cur.dels) = <<>> THEN NoGroup
                   ELSE [cur EXCEPT !.dels = Tail(@)]
           r == mergeDirectories(fs, dir.path, cur.keep.path)
       IN IF dryRun
          THEN /\ counters' = [counters EXCEPT !.directoriesMergedOrProcessed = @ + 1]
               /\ cur' = rest
               /\ UNCHANGED <<fs, pc, merges>>
          ELSE IF ~r.threw
          THEN /\ fs' = r.fs
               /\ merges' = Append(merges, <<dir.path, cur.keep.path>>)
               /\ counters' = [counters EXCEPT !.directoriesMergedOrProcessed = @ + 1]
               /\ cur' = rest
               /\ UNCHANGED pc
          ELSE /\ fs' = r.fs
               /\ pc' = "threw"
               /\ UNCHANGED <<counters, cur, merges>>
    /\ UNCHANGED <<fs0, lsReverse, dryRun, skipPaths, queue, task, files, work,
                   lists, results, dirSize, cleanupInProgress, interrupted,
                   unreadable, undeletable, errorLogged>>

\* lines 165-172: the loops are over; write the counters record
DirFinish ==
    /\ task = "dir" /\ pc = "loop" /\ ~cur.active /\ work = <<>>
    /\ results' = results \cup
           {[script |-> "cleanupDirectories",
             data |-> [directoriesMergedOrProcessed |->
                           counters.directoriesMergedOrProcessed]]}
    /\ pc' = "done"
    /\ UNCHANGED <<fs, fs0, lsReverse, dryRun, skipPaths, queue, task, files, work,
                   cur, lists, counters, merges, dirSize, cleanupInProgress, interrupted,
                   unreadable, undeletable, errorLogged>>

-----------------------------------------------------------------------------
(* The reclaimer: cleanupEmptyDirs *)

\* itemPath.toLowerCase()
toLowerCasePath(p) == [i \in 1..Len(p) |-> toLowerCase(p[i])]

RECURSIVE SumLen(_)
SumLen(p) == IF p = <<>> THEN 0 ELSE Len(Head(p)) + 1 + SumLen(Tail(p))

\* dirPath.length, up to the length of the scan root
PathLength(p) == SumLen(p)

\* dirsToCheck.sort((a, b) => b.length - a.length): stable, longest first
RECURSIVE SortByLengthDesc(_)
SortByLengthDesc(s) ==
    IF s = <<>> THEN <<>>
    ELSE LET m == Max({PathLength(s[i]) : i \in 1..Len(s)})
             k == CHOOSE i \in 1..Len(s) :
                      PathLength(s[i]) = m /\ \A j \in 1..(i - 1) : PathLength(s[j]) # m
         IN <<s[k]>> \o SortByLengthDesc(SubSeq(s, 1, k - 1) \o SubSeq(s, k + 1, Len(s)))

\* lines 348-355: lowercase paths that more than one directory has
PotentialProblemPaths(dirsToCheck) ==
    {toLowerCasePath(dirsToCheck[i]) : i \in
        {i \in 1..Len(dirsToCheck) :
            \E j \in 1..Len(dirsToCheck) :
                j # i /\ toLowerCasePath(dirsToCheck[j]) = toLowerCasePath(dirsToCheck[i])}}

\* lines 404-406: the path, or one of its parents, is a configured skip path
ShouldSkipFromConfig(lowerPath) ==
    \E skipPath \in skipPaths : lowerPath = skipPath \/ IsProperPrefix(skipPath, lowerPath)

\* isDirectoryEmpty: FALSE for a missing directory and for one that cannot be read
isDirectoryEmpty(f, dirPath) ==
    existsSync(f, dirPath) /\ dirPath \notin unreadable /\ Entries(f, dirPath) = {}

\* lines 425-459: two subdirectories, or the directory and an entry next to
\* it, have names that differ only in case
HasCaseIssues(f, dirPath) ==
    \/ \E a, b \in Entries(f, dirPath) :
          /\ a # b /\ IsDir(f, a) /\ IsDir(f, b)
          /\ toLowerCase(basename(a)) = toLowerCase(basename(b))
    \/ \E q \in Entries(f, dirname(dirPath)) :
          /\ q # dirPath
          /\ toLowerCase(basename(q)) = toLowerCase(basename(dirPath))

\* a variant that looks for audio files in the directory itself only
thoroughCheckCurrentDirOnly(f, dirPath) ==
    /\ existsSync(f, dirPath)
    /\ dirPath \notin unreadable
    /\ \E q \in Entries(f, dirPath) : ~IsDir(f, q) /\ isAudioFile(basename(q))

\* thoroughCheckDirectoryForAudio where the platform is not win32: an audio
\* file in the directory, or in a subdirectory, recursively; FALSE for a
\* directory whose listing cannot be read (lines 141-156)
RECURSIVE thoroughCheckDirectoryForAudio(_, _)
thoroughCheckDirectoryForAudio(f, dirPath) ==
    /\ existsSync(f, dirPath)
    /\ dirPath \notin unreadable
    /\ \/ \E q \in Entries(f, dirPath) : ~IsDir(f, q) /\ isAudioFile(basename(q))
       \/ \E q \in Entries(f, dirPath) :
             IsDir(f, q) /\ thoroughCheckDirectoryForAudio(f, q)

\* lines 298-369: scan the directories, find the case-conflicting paths, sort
EmptyScan ==
    /\ task = "empty" /\ pc = "scan"
    /\ LET visited == traverseDirectory(fs, <<>>)
           dirsToCheck == SelectSeq(visited, LAMBDA p : IsDir(fs, p))
       IN /\ work' = SortByLengthDesc(dirsToCheck)
          /\ lists' = [NoLists EXCEPT
                          !.potentialProblemPaths = PotentialProblemPaths(dirsToCheck)]
    /\ counters' = ZeroCounters
    /\ pc' = "loop"
    /\ UNCHANGED <<fs, fs0, lsReverse, dryRun, skipPaths, queue, task, files, cur,
                   results, merges, dirSize, cleanupInProgress, interrupted,
                   unreadable, undeletable, errorLogged>>

\* the tree after directory old, with all it holds, has been renamed to new
RenameTree(f, old, new) ==
    LET moved == {q \in DOMAIN f : IsPrefix(old, q)}
        To(q) == new \o SubSeq(q, Len(old) + 1, Len(q))
    IN [q \in (DOMAIN f \ moved) \cup {To(m) : m \in moved} |->
           IF q \in DOMAIN f \ moved THEN f[q]
           ELSE f[CHOOSE m \in moved : To(m) = q]]

\* a variant of the classification that, in a live pass, gives a directory
\* with a case conflict a temporary name before it skips it
EmptyClassifyRenaming ==
    /\ task = "empty" /\ pc = "loop" /\ work # <<>>
    /\ LET dirPath == Head(work)
           lowerPath == toLowerCasePath(dirPath)
           tempPath == Append(DropLast(dirPath), Last(dirPath) \o <<"~">>)
       IN /\ lowerPath \in lists.potentialProblemPaths
          /\ lists' = [lists EXCEPT !.skippedDirs = @ \cup {dirPath}]
          /\ fs' = IF dryRun THEN fs ELSE RenameTree(fs, dirPath, tempPath)
    /\ work' = Tail(work)
    /\ UNCHANGED <<fs0, lsReverse, dryRun, skipPaths, queue, task, pc, files,
                   cur, counters, results, merges, dirSize, cleanupInProgress, interrupted,
                   unreadable, undeletable, errorLogged>>

\* lines 371-567: one iteration of the classification loop
EmptyClassify ==
    /\ task = "empty" /\ pc = "loop" /\ work # <<>>
    /\ LET dirPath == Head(work)
           lowerPath == toLowerCasePath(dirPath)
       IN lists' =
            IF lowerPath \in lists.processedDirLowerCase THEN lists
            ELSE IF lowerPath \in lists.potentialProblemPaths
            THEN [lists EXCEPT !.skippedDirs = @ \cup {dirPath}]
            ELSE IF ShouldSkipFromConfig(lowerPath)
            THEN [lists EXCEPT !.skippedDirs = @ \cup {dirPath}]
            ELSE IF isDirectoryEmpty(fs, dirPath)
            THEN [lists EXCEPT !.processedDirLowerCase = @ \cup {lowerPath},
                               !.emptyDirs = Append(@, dirPath)]
            ELSE IF dirPath \in unreadable
            THEN [lists EXCEPT !.processedDirLowerCase = @ \cup {lowerPath},
                               !.errorDirs = @ \cup {dirPath}]
            ELSE IF thoroughCheckDirectoryForAudio(fs, dirPath)
            THEN [lists EXCEPT !.processedDirLowerCase = @ \cup {lowerPath}]
            ELSE [lists EXCEPT !.processedDirLowerCase = @ \cup {lowerPath},
                               !.potentialCaseIssues =
                                   IF HasCaseIssues(fs, dirPath) THEN @ \cup {dirPath} ELSE @,
                               !.noAudioDirs = Append(@, dirPath)]
    /\ work' = Tail(work)
    /\ UNCHANGED <<fs, fs0, lsReverse, dryRun, skipPaths, queue, task, pc, files,
                   cur, counters, results, merges, dirSize, cleanupInProgress, interrupted,
                   unreadable, undeletable, errorLogged>>

\* a variant of the loop over emptyDirs without the test of dryRun
EmptyDeleteEmptyAlways ==
    /\ task = "empty" /\ pc = "loop" /\ work = <<>>
    /\ lists.nextEmpty <= Len(lists.emptyDirs)
    /\ fs' = rmdirSync(fs, lists.emptyDirs[lists.nextEmpty])
    /\ lists' = [lists EXCEPT !.nextEmpty = @ + 1]
    /\ UNCHANGED <<fs0, lsReverse, dryRun, skipPaths, queue, task, pc, files, work,
                   cur, counters, results, merges, dirSize, cleanupInProgress, interrupted,
                   unreadable, undeletable, errorLogged>>

\* lines 569-579: one iteration of the loop over emptyDirs
EmptyDeleteEmpty ==
    /\ task = "empty" /\ pc = "loop" /\ work = <<>>
    /\ lists.nextEmpty <= Len(lists.emptyDirs)
    /\ LET dir == lists.emptyDirs[lists.nextEmpty]
       IN IF dryRun
          THEN /\ lists' = [lists EXCEPT !.nextEmpty = @ + 1]
               /\ UNCHANGED <<fs, pc>>
          ELSE IF dir \in DOMAIN fs /\ IsDir(fs, dir)
          THEN /\ fs' = rmdirSync(fs, dir)
               /\ lists' = [lists EXCEPT !.nextEmpty = @ + 1]
               /\ UNCHANGED pc
          ELSE /\ pc' = "threw"
               /\ UNCHANGED <<fs, lists>>
    /\ UNCHANGED <<fs0, lsReverse, dryRun, skipPaths, queue, task, files, work,
                   cur, counters, results, merges, dirSize, cleanupInProgress, interrupted,
                   unreadable, undeletable, errorLogged>>

RECURSIVE rmdirWhileUnreadable(_, _)
RECURSIVE RemoveEntries(_, _, _)

\* the loop of the recursive removal over the entries of directory d
RemoveEntries(r, names, d) ==
    IF r.threw \/ names = <<>> THEN r
    ELSE LET child == Append(d, Head(names))
             next == IF IsDir(r.fs, child) THEN rmdirWhileUnreadable(r.fs, child)
                     ELSE Ok(unlinkSync(r.fs, child))
         IN RemoveEntries(next, Tail(names), d)

\* fs.rmdirSync(d, {recursive: true}) while the unreadable directories still
\* cannot be read: entries are removed in listing order, and the call raises
\* at the first directory that is not empty and cannot be listed
rmdirWhileUnreadable(f, d) ==
    IF \A u \in unreadable : ~(IsPrefix(d, u) /\ u \in DOMAIN f /\ Entries(f, u) # {})
    THEN Ok(rmdirSync(f, d))
    ELSE IF d \in unreadable THEN Throw(f)
    ELSE LET r == RemoveEntries(Ok(f), readdirSync(f, d), d)
         IN IF r.threw THEN r ELSE Ok(rmdirSync(r.fs, d))

\* deleteDirectory(d): the read error either still stands when the directory
\* is removed, or has gone by then
deleteDirectory(f, d, errorStands) ==
    IF errorStands THEN rmdirWhileUnreadable(f, d) ELSE Ok(rmdirSync(f, d))

\* lines 612-632: one iteration of the loop over noAudioDirs; a directory
\* with case issues or read errors is reported and left alone.  An error
\* raised by deleteDirectory leaves the pass
EmptyDeleteNoAudio ==
    /\ task = "empty" /\ pc = "loop" /\ work = <<>>
    /\ lists.nextEmpty > Len(lists.emptyDirs)
    /\ lists.nextNoAudio <= Len(lists.noAudioDirs)
    /\ LET dir == lists.noAudioDirs[lists.nextNoAudio]
       IN IF dryRun \/ dir \in lists.potentialCaseIssues \/ dir \in lists.errorDirs
          THEN /\ lists' = [lists EXCEPT !.nextNoAudio = @ + 1]
               /\ UNCHANGED <<fs, pc>>
          ELSE IF dir \in DOMAIN fs /\ IsDir(fs, dir)
          THEN \E errorStands \in BOOLEAN :
                  LET r == deleteDirectory(fs, dir, errorStands)
                  IN /\ fs' = r.fs
                     /\ IF r.threw
                        THEN pc' = "threw" /\ UNCHANGED lists
                        ELSE /\ lists' = [lists EXCEPT !.nextNoAudio = @ + 1]
                             /\ UNCHANGED pc
          ELSE /\ pc' = "threw"
               /\ UNCHANGED <<fs, lists>>
    /\ UNCHANGED <<fs0, lsReverse, dryRun, skipPaths, queue, task, files, work,
                   cur, counters, results, merges, dirSize, cleanupInProgress, interrupted,
                   unreadable, undeletable, errorLogged>>

\* lines 635-641: every list has been gone through; the pass returns
EmptyFinish ==
    /\ task = "empty" /\ pc = "loop" /\ work = <<>>
    /\ lists.nextEmpty > Len(lists.emptyDirs)
    /\ lists.nextNoAudio > Len(lists.noAudioDirs)
    /\ pc' = "done"
    /\ UNCHANGED <<fs, fs0, lsReverse, dryRun, skipPaths, queue, task, files, work,
                   cur, lists, counters, results, merges, dirSize, cleanupInProgress, interrupted,
                   unreadable, undeletable, errorLogged>>

-----------------------------------------------------------------------------
(* The full-run driver: cleanupAllCommand *)

Passes == {"empty", "dup", "fmt", "dir"}

\* lines 67-88: the tasks in the order the driver runs them
cleanupTasks == <<"empty", "dup", "fmt", "dir">>

\* lines 13-21: the SIGINT handler.  It runs when the event loop takes a
\* turn: before runCleanupTasks starts, and while a scan awaits its count
Sigint ==
    /\ \/ task = "none" /\ pc = "idle"
       \/ task \in {"dup", "fmt"} /\ pc = "scan"
    /\ cleanupInProgress
    /\ cleanupInProgress' = FALSE
    /\ interrupted' = TRUE
    /\ UNCHANGED <<fs, fs0, lsReverse, dryRun, skipPaths, queue, task, pc, files,
                   work, cur, lists, counters, results, merges, dirSize,
                   unreadable, undeletable, errorLogged>>

\* lines 48-55: the timer fires and runCleanupTasks begins
RunStart ==
    /\ task = "none" /\ pc = "idle"
    /\ cleanupInProgress' = TRUE
    /\ task' = "driver"
    /\ pc' = "next"
    /\ UNCHANGED <<fs, fs0, lsReverse, dryRun, skipPaths, queue, files, work, cur,
                   lists, counters, results, merges, dirSize, interrupted,
                   unreadable, undeletable, errorLogged>>

\* lines 90-96: the next task that is not skipped is started
RunNextTask ==
    /\ task = "driver" /\ pc = "next"
    /\ queue # <<>> /\ cleanupInProgress
    /\ task' = Head(queue)
    /\ queue' = Tail(queue)
    /\ pc' = "scan"
    /\ files' = <<>>
    /\ work' = <<>>
    /\ cur' = NoGroup
    /\ UNCHANGED <<fs, fs0, lsReverse, dryRun, skipPaths, lists, counters, results,
                   merges, dirSize, cleanupInProgress, interrupted,
                   unreadable, undeletable, errorLogged>>

\* lines 97-101: the task has returned; an interrupted run leaves the loop
RunTaskReturned ==
    /\ task \in Passes /\ pc = "done"
    /\ task' = "driver"
    /\ pc' = IF cleanupInProgress THEN "next" ELSE "finally"
    /\ UNCHANGED <<fs, fs0, lsReverse, dryRun, skipPaths, queue, files, work, cur,
                   lists, counters, results, merges, dirSize, cleanupInProgress, interrupted,
                   unreadable, undeletable, errorLogged>>

\* a variant of the catch block that reports every error as a generic error
RunFinallyLogsEvery ==
    /\ \/ task = "driver" /\ pc = "finally"
       \/ task = "driver" /\ pc = "next" /\ (queue = <<>> \/ ~cleanupInProgress)
       \/ task \in Passes /\ pc \in {"threw", "halted"}
    /\ errorLogged' = (errorLogged \/ task \in Passes)
    /\ cleanupInProgress' = TRUE
    /\ task' = "driver"
    /\ pc' = "end"
    /\ UNCHANGED <<fs, fs0, lsReverse, dryRun, skipPaths, queue, files, work, cur,
                   lists, counters, results, merges, dirSize, interrupted,
                   unreadable, undeletable>>

\* lines 107-127: the loop is over, or a task raised: catch and finally;
\* the catch block reports an error other than the interruption (line 118)
RunFinally ==
    /\ \/ task = "driver" /\ pc = "finally"
       \/ task = "driver" /\ pc = "next" /\ (queue = <<>> \/ ~cleanupInProgress)
       \/ task \in Passes /\ pc \in {"threw", "halted"}
    /\ errorLogged' = (errorLogged \/ (task \in Passes /\ pc = "threw"))
    /\ cleanupInProgress' = TRUE
    /\ task' = "driver"
    /\ pc' = "end"
    /\ UNCHANGED <<fs, fs0, lsReverse, dryRun, skipPaths, queue, files, work, cur,
                   lists, counters, results, merges, dirSize, interrupted,
                   unreadable, undeletable>>

-----------------------------------------------------------------------------
(* Initial trees *)

Prefixes(P) == UNION {{SubSeq(p, 1, i) : i \in 1..Len(p)} : p \in P}

\* the tree holding the files F (with sizes sz) and the directories D
\* (with modification times mt), and every directory above them
Tree(F, sz, D, mt) ==
    LET allDirs == (Prefixes(F) \ F) \cup Prefixes(D)
    IN [p \in F \cup allDirs |->
          IF p \in F THEN FileNode(sz[p], p)
          ELSE DirNode(IF p \in DOMAIN mt THEN mt[p] ELSE 0)]

Mp3 == <<".", "m", "p", "3">>
Flac == <<".", "f", "l", "a", "c">>
Wav == <<".", "w", "a", "v">>
Jpg == <<".", "j">>
Ctr(n) == <<" ", "(", n, ")">>

DupCandidates ==
    LET A == <<"A">>
        B == <<"B">>
        S == <<"S">>
    IN {<<A, S \o Mp3>>,
        <<A, S \o Ctr("1") \o Mp3>>,
        <<A, S \o Ctr("1") \o Ctr("2") \o Mp3>>,
        <<A, S \o Ctr("1") \o Ctr("3") \o Mp3>>,
        <<A, S \o <<"(", "2", ")">> \o Flac>>,
        <<A, S \o Ctr("2") \o Flac>>,
        <<B, S \o Mp3>>,
        <<B, S \o Ctr("1") \o Mp3>>}

InitCommon ==
    /\ fs0 = fs
    /\ queue = <<>>
    /\ pc = "scan"
    /\ files = <<>>
    /\ work = <<>>
    /\ cur = NoGroup
    /\ lists = NoLists
    /\ counters = ZeroCounters
    /\ results = {}
    /\ merges = <<>>
    /\ cleanupInProgress = TRUE
    /\ interrupted = FALSE

\* cleanupDuplicatesCommand: the duplicate resolver run on its own
InitDup ==
    /\ \E F \in SUBSET DupCandidates :
          /\ F # {} /\ Cardinality(F) <= MaxFiles
          /\ \E sz \in [F -> 1..MaxSize] : fs = Tree(F, sz, {}, <<>>)
    /\ lsReverse \in BOOLEAN
    /\ dryRun \in BOOLEAN
    /\ skipPaths = {}
    /\ dirSize = 0
    /\ unreadable = {}
    /\ undeletable = {}
    /\ errorLogged = FALSE
    /\ task = "dup"
    /\ InitCommon

FmtCandidates ==
    LET A == <<"A">>
        B == <<"B">>
    IN {<<A, <<"e">> \o Flac>>,
        <<A, <<"E">> \o Mp3>>,
        <<A, <<"e_acute">> \o Mp3>>,
        <<A, <<"e">> \o Wav>>,
        <<A, <<"e">> \o Ctr("1") \o Mp3>>,
        <<A, <<"&">> \o Flac>>,
        <<A, <<"a", "n", "d">> \o <<".", "M", "P", "3">>>>,
        <<B, <<"e">> \o Mp3>>}

\* cleanupMp3FlacCommand: the format resolver run on its own
InitFmt ==
    /\ \E F \in SUBSET FmtCandidates :
          /\ F # {} /\ Cardinality(F) <= MaxFiles
          /\ \E sz \in [F -> 1..MaxSize] : fs = Tree(F, sz, {}, <<>>)
    /\ lsReverse \in BOOLEAN
    /\ dryRun \in BOOLEAN
    /\ skipPaths = {}
    /\ dirSize = 0
    /\ unreadable = {}
    /\ undeletable = {}
    /\ errorLogged = FALSE
    /\ task = "fmt"
    /\ InitCommon

NextFmt == FmtScan \/ FmtNextGroup \/ FmtDelete \/ FmtFinish

SpecFmt == InitFmt /\ [][NextFmt]_vars

DirParents == {<<"P">>, <<"e">>}

DirMembers == {<<"e">>, <<"E">>, <<"e_acute">>}

\* cleanupDirectoriesCommand: the directory merger run on its own, over a
\* parent directory holding similarly named directories; a directory may
\* hold a subdirectory x, or a file x, and a file f.mp3
InitDir ==
    /\ \E par \in DirParents, S \in SUBSET DirMembers :
       \E XD \in SUBSET S, FF \in SUBSET S :
       \E XF \in SUBSET (S \ XD) :
          /\ S # {}
          /\ Cardinality(S) + Cardinality(XD) + Cardinality(XF) + Cardinality(FF)
                 <= MaxFiles + 1
          /\ LET D == {<<par, m>> : m \in S} \cup {<<par, m, <<"x">>>> : m \in XD}
                 F == {<<par, m, <<"x">>>> : m \in XF}
                        \cup {<<par, m, <<"f">> \o Mp3>> : m \in FF}
             IN \E sz \in [F -> 1..MaxSize], mt \in [{<<par, m>> : m \in S} -> 0..MaxTime] :
                   \* the size of a file is only read when an entry of its
                   \* name lies in another member
                   /\ \A p \in F :
                         (\A q \in (F \cup D) \ {p} : Len(q) = 3 => Last(q) # Last(p))
                            => sz[p] = 1
                   /\ fs = Tree(F, sz, D, mt)
          \* the size reported for a directory is only read when a file x
          \* meets a directory x
          /\ dirSize \in (IF XD # {} /\ XF # {} THEN {0, MaxSize} ELSE {0})
    /\ lsReverse \in BOOLEAN
    /\ dryRun \in BOOLEAN
    /\ skipPaths = {}
    /\ unreadable = {}
    /\ undeletable = {}
    /\ errorLogged = FALSE
    /\ task = "dir"
    /\ InitCommon

NextDir == DirScan \/ DirNextGroup \/ DirMerge \/ DirFinish

SpecDir == InitDir /\ [][NextDir]_vars

EmptyDirCandidates ==
    {<<<<"A">>, <<"P">>>>, <<<<"A">>, <<"P">>, <<"S">>>>, <<<<"A">>, <<"P">>, <<"s">>>>,
     <<<<"A">>, <<"E">>>>}

EmptyFileCandidates ==
    {<<<<"A">>, <<"P">>, <<"S">>, <<"c">> \o Jpg>>,
     <<<<"A">>, <<"P">>, <<"S">>, <<"f">> \o Mp3>>,
     <<<<"A">>, <<"P">>, <<"s">>, <<"c">> \o Jpg>>,
     <<<<"A">>, <<"P">>, <<"c">> \o Jpg>>,
     <<<<"A">>, <<"c">> \o Jpg>>,
     <<<<"A">>, <<"E">>, <<"f">> \o Mp3>>}

EmptySkipConfigs ==
    {{}, {<<<<"a">>, <<"p">>, <<"s">>>>}, {<<<<"a">>, <<"p">>>>}}

\* cleanupEmptyDirsCommand: the reclaimer run on its own
InitEmpty ==
    /\ \E D \in SUBSET EmptyDirCandidates, F \in SUBSET EmptyFileCandidates :
          /\ D \cup F # {}
          /\ Cardinality(D) + Cardinality(F) <= MaxFiles + 1
          /\ fs = Tree(F, [p \in F |-> 1], D, <<>>)
    /\ lsReverse \in BOOLEAN
    /\ dryRun \in BOOLEAN
    /\ skipPaths \in EmptySkipConfigs
    /\ \E U \in SUBSET {d \in DOMAIN fs : IsDir(fs, d)} :
          Cardinality(U) <= 1 /\ unreadable = U
    /\ undeletable = {}
    /\ errorLogged = FALSE
    /\ dirSize = 0
    /\ task = "empty"
    /\ InitCommon

NextEmpty ==
    EmptyScan \/ EmptyClassify \/ EmptyDeleteEmpty \/ EmptyDeleteNoAudio \/ EmptyFinish

SpecEmpty == InitEmpty /\ [][NextEmpty]_vars

RunDirCandidates == {<<<<"P">>, <<"e_acute">>>>}

RunFileCandidates ==
    LET T == <<"T">>
    IN {<<<<"P">>, <<"e">>, T \o Flac>>,
        <<<<"P">>, <<"e">>, T \o Mp3>>,
        <<<<"P">>, <<"e">>, T \o Ctr("1") \o Mp3>>,
        <<<<"P">>, <<"e_acute">>, T \o Mp3>>,
        <<<<"P">>, <<"e_acute">>, <<"c">> \o Jpg>>}

\* the tasks left by the --skip-... options
RunQueues == {cleanupTasks, SelectSeq(cleanupTasks, LAMBDA t : t # "empty")}

\* cleanupAllCommand: every pass, one after the other, over one tree
InitRun ==
    /\ \E D \in SUBSET RunDirCandidates, F \in SUBSET RunFileCandidates :
          /\ F # {}
          /\ Cardinality(D) + Cardinality(F) <= MaxFiles + 1
          /\ \E sz \in [F -> 1..MaxSize] : fs = Tree(F, sz, D, <<>>)
    /\ lsReverse \in BOOLEAN
    /\ dryRun \in BOOLEAN
    /\ skipPaths = {}
    /\ dirSize = 0
    /\ queue \in RunQueues
    /\ unreadable = {}
    /\ undeletable = {}
    /\ errorLogged = FALSE
    /\ task = "none"
    /\ pc = "idle"
    /\ fs0 = fs
    /\ files = <<>>
    /\ work = <<>>
    /\ cur = NoGroup
    /\ lists = NoLists
    /\ counters = ZeroCounters
    /\ results = {}
    /\ merges = <<>>
    /\ cleanupInProgress = TRUE
    /\ interrupted = FALSE

NextRun ==
    \/ Sigint \/ RunStart \/ RunNextTask \/ RunTaskReturned \/ RunFinally
    \/ EmptyScan \/ EmptyClassify \/ EmptyDeleteEmpty \/ EmptyDeleteNoAudio \/ EmptyFinish
    \/ DupScan \/ DupNextGroup \/ DupDelete \/ DupRename \/ DupFinish
    \/ FmtScan \/ FmtNextGroup \/ FmtDelete \/ FmtFinish
    \/ DirScan \/ DirNextGroup \/ DirMerge \/ DirFinish

SpecRun == InitRun /\ [][NextRun]_vars

NextDup == DupScan \/ DupNextGroup \/ DupDelete \/ DupRename \/ DupFinish

SpecDup == InitDup /\ [][NextDup]_vars

-----------------------------------------------------------------------------
(* Properties of the duplicate resolver *)

\* the initial audio files, in scan order
InitialFiles == getAudioFilesInDirectory(fs0)

\* the initial files whose content is still held by some file of the tree
Survives(file) == \E p \in DOMAIN fs : fs[p].kind = "file" /\ fs[p].id = file.path

DupLiveDone == task = "dup" /\ pc = "done" /\ ~dryRun

\* C1: after a live duplicate-resolver pass that completes, of every group of
\* initial audio files with the same parent directory and the same base name
\* (counter stripped, trimmed) exactly one file remains, it has the maximum
\* size of the group, and among the files of maximum size it is the first in
\* scan order.
C1_DuplicateKeepRule ==
    DupLiveDone =>
        \A i \in 1..Len(InitialFiles) :
            LET G == {j \in 1..Len(InitialFiles) :
                         /\ dirname(InitialFiles[j].path) = dirname(InitialFiles[i].path)
                         /\ DupBaseName(InitialFiles[j]) = DupBaseName(InitialFiles[i])}
                m == Max({InitialFiles[j].size : j \in G})
                first == CHOOSE j \in G :
                             /\ InitialFiles[j].size = m
                             /\ \A k \in G : InitialFiles[k].size = m => j <= k
            IN {j \in G : Survives(InitialFiles[j])} = {first}

-----------------------------------------------------------------------------
(* Properties of the format resolver *)

FmtLiveDone == task = "fmt" /\ pc = "done" /\ ~dryRun

\* the indices of the initial files grouped with initial file i by the
\* format resolver's key: same parent directory, same normalized base name
FmtGroupOf(i) ==
    {j \in 1..Len(InitialFiles) :
        /\ dirname(InitialFiles[j].path) = dirname(InitialFiles[i].path)
        /\ FmtBaseName(InitialFiles[j]) = FmtBaseName(InitialFiles[i])}

\* C2 as stated: after a live format-resolver pass, of every group that held
\* a .flac file and a lossy file (a recognized audio file that is not .flac)
\* no lossy file remains.
C2_FormatPrecedence ==
    FmtLiveDone =>
        \A i \in 1..Len(InitialFiles) :
            (/\ InitialFiles[i].extension # Flac
             /\ \E j \in FmtGroupOf(i) : InitialFiles[j].extension = Flac)
            => ~Survives(InitialFiles[i])

\* C2, amended: after a live format-resolver pass, of every group that held
\* a .flac file and a .mp3 file no .mp3 file remains, whatever the sizes;
\* files of any other extension of the group all remain.
C2_Mp3Precedence ==
    FmtLiveDone =>
        \A i \in 1..Len(InitialFiles) :
            IF /\ InitialFiles[i].extension = Mp3
               /\ \E j \in FmtGroupOf(i) : InitialFiles[j].extension = Flac
            THEN ~Survives(InitialFiles[i])
            ELSE Survives(InitialFiles[i])

\* C2's case: a live pass has ended over a group in which a .mp3 file was
\* larger than the .flac file, found under a name that differs from the
\* .flac file's name before normalization
C2_Witness ==
    /\ FmtLiveDone
    /\ \E i, j \in 1..Len(InitialFiles) :
          /\ j \in FmtGroupOf(i)
          /\ InitialFiles[i].extension = Mp3
          /\ InitialFiles[j].extension = Flac
          /\ InitialFiles[i].size > InitialFiles[j].size
          /\ InitialFiles[i].name # InitialFiles[j].name
          /\ ~Survives(InitialFiles[i])

-----------------------------------------------------------------------------
(* Properties of the directory merger *)

\* the path of p relative to directory d, for p under d
RelativeTo(d, p) == SubSeq(p, Len(d) + 1, Len(p))

\* C3: a live top-level merge(source, target) that completes leaves every
\* file that was under source or under target before the merge at the same
\* relative path under target, with a size at least the size it had.
C3_NoContentLoss ==
    [][merges' # merges =>
          LET sourcePath == Last(merges')[1]
              targetPath == Last(merges')[2]
          IN \A d \in {sourcePath, targetPath} :
             \A p \in DOMAIN fs :
                (IsFile(fs, p) /\ IsPrefix(d, p)) =>
                    LET q == targetPath \o RelativeTo(d, p)
                    IN IsFile(fs', q) /\ fs'[q].size >= fs[p].size]_vars

\* the members of the group in hand that pass filter after filter
SelCandidates(group) ==
    LET G == 1..Len(group)
        A == {i \in G : group[i].hasAccents}
        F1 == IF A # {} THEN A ELSE G
        F2 == {i \in F1 : \A j \in F1 : group[j].subfolderCount <= group[i].subfolderCount}
    IN {i \in F2 : \A j \in F2 : group[j].lastModified <= group[i].lastModified}

\* C9: the directory kept for a fuzzy group is the first, in group order, of
\* the members left by the filters: names with diacritics (if any), then the
\* greatest subfolder count, then the most recent modification time.  A
\* name with diacritics wins over a plain name with more subfolders.
C9_CanonicalSelection ==
    (task = "dir" /\ cur.active) =>
        /\ \E i \in SelCandidates(cur.group) :
              /\ cur.keep = cur.group[i]
              /\ \A j \in SelCandidates(cur.group) : i <= j
        /\ (\E i \in 1..Len(cur.group) : cur.group[i].hasAccents) => cur.keep.hasAccents

\* C9's case: a group is in hand whose kept directory has a name with
\* diacritics and fewer subfolders than a plain-named member
C9_Witness ==
    /\ task = "dir" /\ cur.active
    /\ cur.keep.hasAccents
    /\ \E j \in 1..Len(cur.group) :
          /\ ~cur.group[j].hasAccents
          /\ cur.group[j].subfolderCount > cur.keep.subfolderCount

\* the album context of the fuzzy context key: the path of the parent,
\* relative to the scan root, cut to its first two segments; empty for a
\* root-level directory
AlbumContextPath(p) ==
    LET parent == dirname(p)
    IN SubSeq(parent, 1, IF Len(parent) < 2 THEN Len(parent) ELSE 2)

\* C10: directories with the same normalized name and different album
\* contexts are never members of one fuzzy group and are never merged into
\* each other.
C10_FuzzyMatchScope ==
    /\ (task = "dir" /\ cur.active) =>
          \A i, j \in 1..Len(cur.group) :
             DirNormalizedName(cur.group[i]) = DirNormalizedName(cur.group[j])
                => AlbumContextPath(cur.group[i].path) = AlbumContextPath(cur.group[j].path)
    /\ \A k \in 1..Len(merges) :
          normalizeForFuzzyMatching(basename(merges[k][1]))
                 = normalizeForFuzzyMatching(basename(merges[k][2]))
             => AlbumContextPath(merges[k][1]) = AlbumContextPath(merges[k][2])

-----------------------------------------------------------------------------
(* Properties of the reclaimer *)

EmptyLiveDone == task = "empty" /\ pc = "done" /\ ~dryRun

\* C5: when a live reclaimer pass ends, every directory whose lowercase path
\* is a skip-set entry or lies beneath one still exists with its content.
C5_SkipSetProtection ==
    EmptyLiveDone =>
        \A d \in DOMAIN fs0 :
            (IsDir(fs0, d) /\ ShouldSkipFromConfig(toLowerCasePath(d)))
                => \A p \in Subtree(fs0, d) : p \in DOMAIN fs /\ fs[p].kind = fs0[p].kind

\* C6: of two sibling directories whose names differ only in case, exactly
\* one of them truly empty, a live reclaimer pass deletes the empty one and
\* leaves the other one, with its content, in place.
C6_CaseCollisionSafety ==
    EmptyLiveDone =>
        \A a, b \in DOMAIN fs0 :
            (/\ IsDir(fs0, a) /\ IsDir(fs0, b) /\ a # b
             /\ dirname(a) = dirname(b)
             /\ toLowerCase(basename(a)) = toLowerCase(basename(b))
             /\ Entries(fs0, a) = {} /\ Entries(fs0, b) # {}
             /\ ~ShouldSkipFromConfig(toLowerCasePath(a)))
                => /\ a \notin DOMAIN fs
                   /\ \A p \in Subtree(fs0, b) : p \in DOMAIN fs /\ fs[p].kind = fs0[p].kind

-----------------------------------------------------------------------------
(* Properties of a full run *)

\* C4: with dryRun set, no pass deletes, renames, copies or creates anything:
\* the tree is at every moment the tree the command started with.
C4_DryRunUntouched == dryRun => fs = fs0

\* C4's case: a dry run has ended in which every pass found something it
\* would have changed
C4_Witness ==
    /\ dryRun /\ task = "driver" /\ pc = "end"
    /\ Len(lists.emptyDirs) + Len(lists.noAudioDirs) > 0
    /\ \E r \in results : r.script = "cleanupDuplicates"
          /\ r.data.duplicateFilesDeleted > 0 /\ r.data.filesRenamed > 0
    /\ \E r \in results : r.script = "cleanupMp3Flac" /\ r.data.mp3FilesDeleted > 0
    /\ \E r \in results : r.script = "cleanupDirectories"
          /\ r.data.directoriesMergedOrProcessed > 0

\* C8: in a live run, once the duplicate resolver and then the format
\* resolver have run over a directory that held Track.flac and Track.mp3,
\* Track.mp3 is gone and Track.flac is still there, whatever their sizes.
C8_LosslessWins ==
    (/\ ~dryRun /\ task = "fmt" /\ pc = "done"
     /\ \E r \in results : r.script = "cleanupDuplicates")
    => \A d \in DOMAIN fs0 :
          LET flac == Append(d, <<"T">> \o Flac)
              mp3 == Append(d, <<"T">> \o Mp3)
          IN (IsFile(fs0, flac) /\ IsFile(fs0, mp3))
                => /\ ~IsFile(fs, mp3)
                   /\ IsFile(fs, flac) /\ fs[flac].id = flac

-----------------------------------------------------------------------------
(* Further properties of the directory merger *)

\* a direct child of the scan root
IsRootLevel(p) == Len(p) = 1

\* C11: a directory that is a direct child of the scan root is never a
\* member of a fuzzy group in hand, never the kept directory, and never the
\* source or the target of a merge.
C11_RootLevelExclusion ==
    /\ (task = "dir" /\ cur.active) =>
          /\ ~IsRootLevel(cur.keep.path)
          /\ \A i \in 1..Len(cur.group) : ~IsRootLevel(cur.group[i].path)
    /\ \A k \in 1..Len(merges) :
          ~IsRootLevel(merges[k][1]) /\ ~IsRootLevel(merges[k][2])

-----------------------------------------------------------------------------
(* Further properties of a full run *)

\* C12: once the SIGINT handler has tripped the cancellation flag, no pass
\* deletes, renames, copies or creates anything: the tree stays as it is.
C12_CancellationStopsMutation ==
    [][interrupted => fs' = fs]_vars

-----------------------------------------------------------------------------
(* One pass run on its own: the three single-pass commands over their trees *)

InitPass == InitDup \/ InitFmt \/ InitDir

NextPass == NextDup \/ NextFmt \/ NextDir

SpecPass == InitPass /\ [][NextPass]_vars

RECURSIVE SumSeq(_)
SumSeq(s) == IF s = <<>> THEN 0 ELSE Head(s) + SumSeq(Tail(s))

\* what the dry-run branches of cleanupDuplicates count over tree f: one per
\* file after the first of every group of more than one file, and one per
\* such group whose largest file carries a numeric suffix
DupDryRunReport(f) ==
    LET fl == getAudioFilesInDirectory(f)
        groups == GroupFiles(fl, [i \in 1..Len(fl) |-> DupBaseName(fl[i])])
        dups == SelectSeq(groups, LAMBDA g : Len(g.members) > 1)
    IN [duplicateFilesDeleted |->
            SumSeq([i \in 1..Len(dups) |-> Len(dups[i].members) - 1]),
        filesRenamed |->
            Len(SelectSeq(dups, LAMBDA g :
                    HasNumericSuffix(Head(SortBySizeDesc(g.members)).name)))]

\* what the dry-run branch of cleanupMp3Flac counts over tree f: the .mp3
\* files of every group that holds a .flac file
FmtDryRunReport(f) ==
    LET fl == getAudioFilesInDirectory(f)
        groups == GroupFiles(fl, [i \in 1..Len(fl) |-> FmtBaseName(fl[i])])
        hits == SelectSeq(groups, LAMBDA g : FmtHasFlac(g.members))
    IN [mp3FilesDeleted |->
            SumSeq([i \in 1..Len(hits) |-> Len(FmtMp3Files(hits[i].members))])]

\* what the dry-run branch of cleanupDirectories counts over tree f: the
\* directories other than the kept one of every group of more than one
DirDryRunReport(f) ==
    LET visited == traverseDirectory(f, <<>>)
        dirs == SelectSeq(visited, LAMBDA p : IsDir(f, p))
        infos == [i \in 1..Len(dirs) |-> DirectoryInfo(f, dirs[i])]
        groups == GroupBy(infos,
                          [i \in 1..Len(infos) |-> DirContext(infos[i])],
                          [i \in 1..Len(infos) |-> DirNormalizedName(infos[i])])
        fuzzy == SelectSeq(groups, LAMBDA g : Len(g.members) > 1)
    IN [directoriesMergedOrProcessed |->
            SumSeq([i \in 1..Len(fuzzy) |-> Len(fuzzy[i].members) - 1])]

\* the record a dry run of the running pass writes for the initial tree
DryRunReport ==
    IF task = "dup" THEN DupDryRunReport(fs0)
    ELSE IF task = "fmt" THEN FmtDryRunReport(fs0)
    ELSE DirDryRunReport(fs0)

\* the dry-run report is what a dry run of the model writes
DryRunReportIsDryRun ==
    (dryRun /\ task \in {"dup", "fmt", "dir"}) =>
        /\ pc # "threw"
        /\ pc = "done" => results = {r \in results : r.data = DryRunReport} /\ results # {}

\* C13: a pass run live over a tree ends by writing a counters record, and
\* the record equals the one a dry run of the same pass over the same tree
\* writes.
C13_DryRunCountersEqualLive ==
    (~dryRun /\ task \in {"dup", "fmt", "dir"}) =>
        /\ pc # "threw"
        /\ pc = "done" => \E r \in results : r.data = DryRunReport

\* the directories of tree f a reclaimer pass would delete: neither skipped
\* as a case-conflicting path nor by the configuration, and empty, or
\* without audio beneath them and without case issues
ReclaimableDirs(f) ==
    LET visited == traverseDirectory(f, <<>>)
        dirsToCheck == SelectSeq(visited, LAMBDA p : IsDir(f, p))
    IN {d \in {dirsToCheck[i] : i \in 1..Len(dirsToCheck)} :
          /\ toLowerCasePath(d) \notin PotentialProblemPaths(dirsToCheck)
          /\ ~ShouldSkipFromConfig(toLowerCasePath(d))
          /\ \/ isDirectoryEmpty(f, d)
             \/ ~thoroughCheckDirectoryForAudio(f, d) /\ ~HasCaseIssues(f, d)}

\* a live run of all four passes has ended, uninterrupted, with the last
\* pass having written its record
RunLiveDone ==
    /\ ~dryRun /\ ~interrupted
    /\ task = "driver" /\ pc = "end"
    /\ lists # NoLists
    /\ \E r \in results : r.script = "cleanupDirectories"

\* C14: when a live run of all passes has ended, a second run finds nothing
\* to do: no directory to reclaim, no duplicate group, no format group and
\* no fuzzy directory group is left in the tree.
C14_Idempotence ==
    RunLiveDone =>
        /\ ReclaimableDirs(fs) = {}
        /\ DupDryRunReport(fs).duplicateFilesDeleted = 0
        /\ FmtDryRunReport(fs).mp3FilesDeleted = 0
        /\ DirDryRunReport(fs).directoriesMergedOrProcessed = 0

-----------------------------------------------------------------------------
(* Further properties of the reclaimer *)

\* C15: no step of the reclaimer removes a recognized audio file, or a
\* directory with a recognized audio file anywhere beneath it, whether or not
\* a directory could be read during the audio check.
C15_NeverDeletesAudio ==
    [][task = "empty" =>
          \A q \in DOMAIN fs :
              (IsFile(fs, q) /\ isAudioFile(basename(q))) =>
                  \A p \in DOMAIN fs : IsPrefix(p, q) => p \in DOMAIN fs']_vars

-----------------------------------------------------------------------------
(* Further properties of the duplicate resolver *)

\* C16: the step that renames the keeper of a duplicate group leaves every
\* file that is not a member of that group in place, with its content.
C16_RenameDoesNotClobber ==
    [][(task = "dup" /\ cur.active /\ cur.dels = <<>>) =>
          \A p \in DOMAIN fs :
              (/\ IsFile(fs, p)
               /\ \A i \in 1..Len(cur.group) : cur.group[i].path # p)
              => /\ p \in DOMAIN fs'
                 /\ fs'[p].id = fs[p].id]_vars

-----------------------------------------------------------------------------
(* Properties of the merges of the directory merger *)

\* C17: no fuzzy group in hand holds a directory together with one of its
\* own subdirectories, so no merge has a source above or beneath its target,
\* and no merge nests a directory into itself: the tree never grows deeper
\* than it was (a recursion that would not end shows as a tree growing
\* until mkdirSync refuses the path).
C17_MergesTerminate ==
    /\ (task = "dir" /\ cur.active) =>
          \A i, j \in 1..Len(cur.group) :
              ~IsProperPrefix(cur.group[i].path, cur.group[j].path)
    /\ task = "dir" =>
          \A p \in DOMAIN fs : \E q \in DOMAIN fs0 : Len(p) <= Len(q)

NestedMembers == {<<"e">>, <<"E">>}

NestedChildren == {<<"t">>, <<"T">>}

\* cleanupDirectoriesCommand over a parent P whose similarly named
\* directories hold similarly named subdirectories themselves, some of them
\* with a file g.mp3
InitDirNested ==
    /\ \E S \in SUBSET NestedMembers :
       \E C \in SUBSET (S \X NestedChildren) :
       \E G \in SUBSET C :
          /\ S # {}
          /\ Cardinality(C) <= MaxFiles + 1
          /\ Cardinality(G) <= 1
          /\ LET P == <<"P">>
                 D == {<<P, m>> : m \in S} \cup {<<P, c[1], c[2]>> : c \in C}
                 F == {<<P, c[1], c[2], <<"g">> \o Mp3>> : c \in G}
             IN \E sz \in [F -> 1..MaxSize], mt \in [{<<P, m>> : m \in S} -> 0..MaxTime] :
                   fs = Tree(F, sz, D, mt)
    /\ lsReverse \in BOOLEAN
    /\ dryRun \in BOOLEAN
    /\ skipPaths = {}
    /\ dirSize = 0
    /\ unreadable = {}
    /\ undeletable = {}
    /\ errorLogged = FALSE
    /\ task = "dir"
    /\ InitCommon

SpecDirNested == InitDirNested /\ [][NextDir]_vars

\* C18: in a live merger pass the kept directory and every directory still
\* to be merged of the group in hand exist when a merge starts, and a path
\* that has been removed from the tree is not created again.
C18_NoStaleMerges ==
    [][(task = "dir" /\ ~dryRun) =>
          /\ cur.active =>
                /\ IsDir(fs, cur.keep.path)
                /\ \A i \in 1..Len(cur.dels) : IsDir(fs, cur.dels[i].path)
          /\ \A p \in DOMAIN fs0 : p \notin DOMAIN fs => p \notin DOMAIN fs']_vars


RECURSIVE mergeDirectoriesSteps(_, _, _)
RECURSIVE MergeItemsSteps(_, _, _, _)

\* the file systems that the loop of lines 205-230 passes through, from f
\* on: one after each call that changes the tree
MergeItemsSteps(f, items, sourcePath, targetPath) ==
    IF items = <<>> THEN {f}
    ELSE LET sourceItemPath == Append(sourcePath, Head(items))
             targetItemPath == Append(targetPath, Head(items))
             one == MergeItems(Ok(f), <<Head(items)>>, sourcePath, targetPath)
             inner ==
                 IF ~existsSync(f, sourceItemPath) THEN {f}
                 ELSE IF IsDir(f, sourceItemPath)
                 THEN mergeDirectoriesSteps(f, sourceItemPath, targetItemPath)
                 ELSE IF /\ existsSync(f, targetItemPath)
                         /\ f[sourceItemPath].size > StatSize(f, targetItemPath)
                         /\ IsFile(f, targetItemPath)
                 THEN {unlinkSync(f, targetItemPath), one.fs}
                 ELSE {one.fs}
         IN inner \cup (IF one.threw THEN {}
                        ELSE MergeItemsSteps(one.fs, Tail(items), sourcePath, targetPath))

\* the file systems that mergeDirectories(sourcePath, targetPath) passes
\* through, the one it ends or raises in included; the recursive removal of
\* the source is taken as one step
mergeDirectoriesSteps(f, sourcePath, targetPath) ==
    LET r0 == IF existsSync(f, targetPath) THEN Ok(f)
              ELSE IF CanMkdir(f, targetPath) THEN Ok(mkdirSync(f, targetPath))
              ELSE Throw(f)
    IN {f, r0.fs} \cup
       (IF r0.threw \/ ~(sourcePath \in DOMAIN r0.fs /\ IsDir(r0.fs, sourcePath)) THEN {}
        ELSE LET items == readdirSync(r0.fs, sourcePath)
                 r1 == MergeItems(r0, items, sourcePath, targetPath)
             IN MergeItemsSteps(r0.fs, items, sourcePath, targetPath)
                   \cup (IF r1.threw THEN {} ELSE {rmdirSync(r1.fs, sourcePath)}))

\* the paths, relative to directory d, of the files below d
RelativeFiles(f, d) ==
    {SubSeq(p, Len(d) + 1, Len(p)) : p \in {q \in DOMAIN f : IsFile(f, q) /\ IsProperPrefix(d, q)}}

\* every relative path that file system f has a file at, under s or under t,
\* has a file in g, under s or under t, at least as large as the largest in f
NoLossBetween(f, g, s, t) ==
    \A rel \in RelativeFiles(f, s) \cup RelativeFiles(f, t) :
       LET largest == Max({f[q].size : q \in {q \in {s \o rel, t \o rel} : IsFile(f, q)}})
       IN \E q \in {s \o rel, t \o rel} : IsFile(g, q) /\ g[q].size >= largest

\* the tree a live merge step leaves is one of those the merge passes through
MergeStepsCoverMerge ==
    [][(task = "dir" /\ ~dryRun /\ pc = "loop" /\ cur.active) =>
          fs' \in mergeDirectoriesSteps(fs, Head(cur.dels).path, cur.keep.path)]_vars

\* C19: whenever a live merge of a directory into the kept one is about to
\* start, every tree the merge passes through, the one it ends in and the
\* one it is aborted in included, still has every file of the two
\* directories, at its relative path under one of them and no smaller.
C19_NoLossAtAnyStep ==
    (task = "dir" /\ ~dryRun /\ pc = "loop" /\ cur.active) =>
       \A g \in mergeDirectoriesSteps(fs, Head(cur.dels).path, cur.keep.path) :
          NoLossBetween(fs, g, Head(cur.dels).path, cur.keep.path)


\* cleanupDuplicatesCommand or cleanupMp3FlacCommand over a library that
\* holds one file which cannot be removed
InitDeleteFails ==
    /\ \/ /\ \E F \in SUBSET DupCandidates :
                /\ F # {} /\ Cardinality(F) <= MaxFiles
                /\ \E sz \in [F -> 1..MaxSize] : fs = Tree(F, sz, {}, <<>>)
          /\ task = "dup"
       \/ /\ \E F \in SUBSET FmtCandidates :
                /\ F # {} /\ Cardinality(F) <= MaxFiles
                /\ \E sz \in [F -> 1..MaxSize] : fs = Tree(F, sz, {}, <<>>)
          /\ task = "fmt"
    /\ lsReverse \in BOOLEAN
    /\ dryRun \in BOOLEAN
    /\ skipPaths = {}
    /\ dirSize = 0
    /\ unreadable = {}
    /\ \E p \in {q \in DOMAIN fs : IsFile(fs, q)} : undeletable = {p}
    /\ errorLogged = FALSE
    /\ InitCommon

SpecDeleteFails == InitDeleteFails /\ [][NextDup \/ NextFmt]_vars

\* the delete the live pass is about to make is of a file that cannot be removed
DeleteAboutToFail ==
    /\ task \in {"dup", "fmt"} /\ pc = "loop" /\ ~dryRun
    /\ cur.active /\ cur.dels # <<>>
    /\ Head(cur.dels).path \in undeletable

\* C20: when the delete of a file fails in the duplicate resolver or in the
\* format resolver, the pass is not left: the groups still to be processed
\* stay in line, and the pass goes on to write its counters record.
C20_FailedDeleteIsLocal ==
    [][DeleteAboutToFail => (pc' # "threw" /\ work' = work)]_vars


-----------------------------------------------------------------------------
(* The walker, step by step: traverseDirectory(dirPath, callback) *)

RECURSIVE CorrectSegments(_, _, _)
\* lines 211-235 of getCorrectCasePath: the path is rebuilt segment by
\* segment, each segment taking the case of the first entry of the directory
\* built so far whose lowercase name is the segment's
CorrectSegments(f, currentPath, parts) ==
    IF parts = <<>> THEN currentPath
    ELSE LET segment == Head(parts)
             dirEntries == IF IsDir(f, currentPath) /\ currentPath \notin unreadable
                           THEN readdirSync(f, currentPath) ELSE <<>>
             matching == SelectSeq(dirEntries,
                                   LAMBDA name : toLowerCase(name) = toLowerCase(segment))
             next == IF matching # <<>> THEN Append(currentPath, Head(matching))
                     ELSE Append(currentPath, segment)
         IN CorrectSegments(f, next, Tail(parts))

\* getCorrectCasePath(pathToCheck)
getCorrectCasePath(f, pathToCheck) ==
    IF existsSync(f, pathToCheck) THEN pathToCheck
    ELSE CorrectSegments(f, <<>>, pathToCheck)

\* the directories a walk may be started on: one that exists, one that
\* exists under another case, one that does not exist
WalkRoots == {<<<<"A">>>>, <<<<"a">>>>, <<<<"T">>>>}

\* a call of traverseDirectory on one of the roots; the cancellation flag may
\* have been tripped before the call
InitWalk ==
    /\ \E D \in SUBSET EmptyDirCandidates, F \in SUBSET EmptyFileCandidates :
          /\ D \cup F # {}
          /\ Cardinality(D) + Cardinality(F) <= MaxFiles
          /\ fs = Tree(F, [p \in F |-> 1], D, <<>>)
    /\ fs0 = fs
    /\ lsReverse \in BOOLEAN
    /\ dryRun = FALSE
    /\ skipPaths = {}
    /\ queue = <<>>
    /\ task = "walk"
    /\ pc = "call"
    /\ files = <<>>
    /\ \E root \in WalkRoots : work = <<[dir |-> root, entries |-> <<>>]>>
    /\ cur = NoGroup
    /\ lists = NoLists
    /\ counters = ZeroCounters
    /\ results = {}
    /\ merges = <<>>
    /\ dirSize = 0
    /\ cleanupInProgress \in BOOLEAN
    /\ interrupted = ~cleanupInProgress
    /\ \E U \in SUBSET {d \in DOMAIN fs : IsDir(fs, d)} :
          Cardinality(U) <= 1 /\ unreadable = U
    /\ undeletable = {}
    /\ errorLogged = FALSE

\* lines 65-85 of the outermost call: the case correction of the directory,
\* the check of the flag (outside the try block: the error reaches the
\* caller), the listing (inside it: an error ends the call normally)
WalkCall ==
    /\ task = "walk" /\ pc = "call"
    /\ LET given == Head(work).dir
           correctedPath == getCorrectCasePath(fs, given)
           found == existsSync(fs, given)
                       \/ (existsSync(fs, correctedPath) /\ correctedPath # given)
           dirPath == IF existsSync(fs, given) THEN given ELSE correctedPath
       IN IF ~found
          THEN pc' = "done" /\ work' = <<>>
          ELSE IF ~cleanupInProgress
          THEN pc' = "threw" /\ work' = <<>>
          ELSE IF ~IsDir(fs, dirPath) \/ dirPath \in unreadable
          THEN pc' = "done" /\ work' = <<>>
          ELSE /\ pc' = "loop"
               /\ work' = <<[dir |-> dirPath, entries |-> readdirSync(fs, dirPath)]>>
    /\ UNCHANGED <<fs, fs0, lsReverse, dryRun, skipPaths, queue, task, files, cur,
                   lists, counters, results, merges, dirSize, cleanupInProgress,
                   interrupted, unreadable, undeletable, errorLogged>>

\* lines 87-101: one iteration of the loop of the innermost call.  The error
\* of a check made inside the try block (line 92, and line 82 of a call made
\* at line 96) is caught by the block around it (line 103): that call ends
\* normally, the check at line 97 of the call above it raises inside that
\* call's own try block, and so on up to the outermost call, which ends
\* normally too.  The callback is any code: it may trip the flag.
WalkVisit ==
    /\ task = "walk" /\ pc = "loop" /\ Head(work).entries # <<>>
    /\ LET frame == Head(work)
           fullPath == Append(frame.dir, Head(frame.entries))
           rest == [frame EXCEPT !.entries = Tail(@)]
       IN IF ~cleanupInProgress
          THEN /\ pc' = "done" /\ work' = <<>>
               /\ UNCHANGED <<files, cleanupInProgress, interrupted>>
          ELSE /\ files' = Append(files, fullPath)
               /\ \E trips \in BOOLEAN :
                     /\ cleanupInProgress' = ~trips
                     /\ interrupted' = trips
                     /\ IF ~IsDir(fs, fullPath)
                        THEN pc' = "loop" /\ work' = <<rest>> \o Tail(work)
                        ELSE IF trips
                        THEN pc' = "done" /\ work' = <<>>
                        ELSE IF fullPath \in unreadable
                        THEN pc' = "loop" /\ work' = <<rest>> \o Tail(work)
                        ELSE /\ pc' = "loop"
                             /\ work' = <<[dir |-> fullPath,
                                           entries |-> readdirSync(fs, fullPath)],
                                          rest>> \o Tail(work)
    /\ UNCHANGED <<fs, fs0, lsReverse, dryRun, skipPaths, queue, task, cur, lists,
                   counters, results, merges, dirSize, unreadable, undeletable, errorLogged>>

\* lines 102-106 and 97: the loop of the innermost call is over; the call
\* returns, and the call above it checks the flag
WalkReturn ==
    /\ task = "walk" /\ pc = "loop" /\ Head(work).entries = <<>>
    /\ IF Len(work) = 1 \/ ~cleanupInProgress
       THEN pc' = "done" /\ work' = <<>>
       ELSE pc' = "loop" /\ work' = Tail(work)
    /\ UNCHANGED <<fs, fs0, lsReverse, dryRun, skipPaths, queue, task, files, cur,
                   lists, counters, results, merges, dirSize, cleanupInProgress,
                   interrupted, unreadable, undeletable, errorLogged>>

NextWalk == WalkCall \/ WalkVisit \/ WalkReturn

SpecWalk == InitWalk /\ [][NextWalk]_vars

\* a walk that no one interrupts visits what traverseDirectory visits
WalkAgreesWithTraverse ==
    (task = "walk" /\ pc = "done" /\ ~interrupted /\ existsSync(fs, <<<<"A">>>>)
        /\ files # <<>>)
       => files = traverseDirectory(fs, <<<<"A">>>>)

\* C21: once the cancellation flag is tripped, a walk calls the callback no
\* more and does not return normally: it ends by raising to its caller.
C21_WalkerRaisesOnCancellation ==
    [][(task = "walk" /\ pc \in {"call", "loop"} /\ ~cleanupInProgress)
          => (files' = files /\ pc' # "done")]_vars

\* the part of C21 that is about the callback alone
WalkerStopsVisiting ==
    [][(task = "walk" /\ ~cleanupInProgress) => files' = files]_vars


\* cleanupDuplicatesCommand over a library in which at most one file cannot
\* be removed
InitDupDeleteFails ==
    /\ \E F \in SUBSET DupCandidates :
          /\ F # {} /\ Cardinality(F) <= MaxFiles
          /\ \E sz \in [F -> 1..MaxSize] : fs = Tree(F, sz, {}, <<>>)
    /\ lsReverse \in BOOLEAN
    /\ dryRun \in BOOLEAN
    /\ skipPaths = {}
    /\ dirSize = 0
    /\ unreadable = {}
    /\ \E U \in SUBSET {q \in DOMAIN fs : IsFile(fs, q)} :
          Cardinality(U) <= 1 /\ undeletable = U
    /\ errorLogged = FALSE
    /\ task = "dup"
    /\ InitCommon

SpecDupDeleteFails == InitDupDeleteFails /\ [][NextDup]_vars

\* C22: in the duplicate resolver, at every step that renames the keeper of
\* the group in hand, no other file of the group is left: each has been
\* deleted before.  Runs in which a deletion fails are runs of this
\* specification.
C22_RenameFollowsDeletions ==
    [][(task = "dup" /\ cur.active /\ IsFile(fs, cur.keep.path)
           /\ ~IsFile(fs', cur.keep.path))
          => \A i \in 1..Len(cur.group) :
                cur.group[i].path # cur.keep.path => ~IsFile(fs, cur.group[i].path)]_vars

\* a live pass has deleted the other files of a group and renamed its keeper
C22_Witness ==
    /\ task = "dup" /\ ~dryRun
    /\ counters.duplicateFilesDeleted >= 1
    /\ counters.filesRenamed >= 1
    /\ fs # fs0

\* a deletion of the live duplicate resolver has failed
C22_DeletionFailed == task = "dup" /\ ~dryRun /\ pc = "threw"


\* the driver observes an interruption: the task that is running has raised
\* the interruption condition, or has returned with the flag down
InterruptionObserved ==
    /\ task \in Passes
    /\ pc = "halted" \/ (pc = "done" /\ ~cleanupInProgress)

ObservedThenReturns == InterruptionObserved => ENABLED RunFinally


\* C24: after a SIGINT has been delivered to the full run, the driver starts
\* no task, and the flag goes up again only when the run ends.
C24_InterruptNeverLost ==
    [][/\ interrupted => ~(task = "driver" /\ task' \in Passes)
       /\ (~cleanupInProgress /\ cleanupInProgress') => (task' = "driver" /\ pc' = "end")]_vars


\* the directories of the initial tree whose lowercase path is that of dirPath
CollisionGroup(dirPath) ==
    {d \in DOMAIN fs0 : IsDir(fs0, d) /\ toLowerCasePath(d) = toLowerCasePath(dirPath)}

\* in tree f, directory d holds what it held at the start
AsBefore(f, d) ==
    /\ Subtree(f, d) = Subtree(fs0, d)
    /\ \A q \in Subtree(fs0, d) : f[q].kind = fs0[q].kind /\ f[q].id = fs0[q].id

\* in tree f every member of G is under its original name, as before
FullyReverted(f, G) == \A d \in G : AsBefore(f, d)

\* in tree f the members of G that were empty are gone and every other one
\* is under its original name, as before
FullyApplied(f, G) ==
    \A d \in G : IF Entries(fs0, d) = {} THEN d \notin DOMAIN f ELSE AsBefore(f, d)

\* the directory the live reclaimer is about to handle has a case conflict
HandlesCollisionMember ==
    /\ task = "empty" /\ ~dryRun /\ pc = "loop" /\ work # <<>>
    /\ toLowerCasePath(Head(work)) \in lists.potentialProblemPaths

\* C25: when the live reclaimer has handled a directory of a case-collision
\* group and moves on, the group is fully applied or fully reverted, and at
\* no time of the pass does the tree hold a path the initial tree had not.
C25_CaseCollisionAtomicity ==
    [][/\ HandlesCollisionMember =>
             \/ FullyReverted(fs', CollisionGroup(Head(work)))
             \/ FullyApplied(fs', CollisionGroup(Head(work)))
       /\ (task = "empty" /\ ~dryRun) => DOMAIN fs' \subseteq DOMAIN fs0]_vars

\* a live pass has handled both directories of a case-collision group
C25_Witness ==
    /\ task = "empty" /\ ~dryRun /\ skipPaths = {}
    /\ \E d \in lists.skippedDirs :
          /\ Cardinality(CollisionGroup(d)) >= 2
          /\ CollisionGroup(d) \subseteq lists.skippedDirs


\* C26: in the full run the reclaimer is started only when the duplicate
\* resolver, the format resolver and the merger have run, so that when a
\* live run of all passes has ended no directory it would reclaim is left.
C26_ReclaimerIsPostPass ==
    [][/\ (task = "driver" /\ task' = "empty") =>
             \A i \in 1..Len(queue') : queue'[i] \notin {"dup", "fmt", "dir"}
       /\ (RunLiveDone' /\ ~RunLiveDone) => ReclaimableDirs(fs') = {}]_vars

\* the second conjunct of C26 alone
ReclaimedWithinRun ==
    [][(RunLiveDone' /\ ~RunLiveDone) => ReclaimableDirs(fs') = {}]_vars


DeepDirCandidates ==
    {<<<<"A">>, <<"P">>, <<"c">>, <<"t">>>>, <<<<"A">>, <<"P">>, <<"c">>, <<"T">>>>,
     <<<<"A">>, <<"P">>, <<"d">>, <<"t">>>>, <<<<"A">>, <<"P">>, <<"d">>, <<"T">>>>}

\* cleanupDirectoriesCommand over similarly named directories that lie four
\* levels deep, under one parent or under two
InitDirDeep ==
    /\ \E D \in SUBSET DeepDirCandidates :
          /\ D # {}
          /\ \E mt \in [D -> 0..MaxTime] : fs = Tree({}, <<>>, D, mt)
    /\ lsReverse \in BOOLEAN
    /\ dryRun \in BOOLEAN
    /\ skipPaths = {}
    /\ dirSize = 0
    /\ unreadable = {}
    /\ undeletable = {}
    /\ errorLogged = FALSE
    /\ task = "dir"
    /\ InitCommon

SpecDirDeep == InitDirDeep /\ [][NextDir]_vars

\* directories a and b lie deeper than two levels, under the same first two
\* segments and under different parents, and have the same normalized name
CousinsOfOneName(a, b) ==
    /\ Len(a.path) >= 4 /\ Len(b.path) >= 4
    /\ SubSeq(a.path, 1, 2) = SubSeq(b.path, 1, 2)
    /\ dirname(a.path) # dirname(b.path)
    /\ DirNormalizedName(a) = DirNormalizedName(b)

\* C27 as claimed: two such directories are put in one fuzzy group by the scan.
C27_TwoLevelContextKey ==
    [][(task = "dir" /\ pc = "scan") =>
          \A i, j \in 1..Len(files') :
             CousinsOfOneName(files'[i], files'[j]) =>
                \E k \in 1..Len(work') :
                   \E m, n \in 1..Len(work'[k].members) :
                      /\ work'[k].members[m] = files'[i]
                      /\ work'[k].members[n] = files'[j]]_vars

\* C27 as amended: the context of a directory that is not at root level is
\* the whole path of its parent; the directories of a fuzzy group that are
\* not at root level have one and the same parent.
C27_ParentContextKey ==
    (task = "dir" /\ cur.active) =>
       \A i, j \in 1..Len(cur.group) :
          (Len(cur.group[i].path) >= 2 /\ Len(cur.group[j].path) >= 2) =>
             /\ DirContext(cur.group[i]) = dirname(cur.group[i].path)
             /\ dirname(cur.group[i].path) = dirname(cur.group[j].path)

\* a group of siblings four levels deep is in hand while a directory of the
\* same normalized name under another parent stays outside it
C27_Witness ==
    /\ task = "dir" /\ cur.active
    /\ Len(cur.group[1].path) = 4
    /\ \E i \in 1..Len(files) :
          /\ CousinsOfOneName(files[i], cur.group[1])
          /\ \A n \in 1..Len(cur.group) : cur.group[n] # files[i]


-----------------------------------------------------------------------------
(* The extensions the format resolver deletes *)

\* initial file i is a .wav file grouped with a .flac file
WavWithFlac(i) ==
    /\ InitialFiles[i].extension = Wav
    /\ \E j \in FmtGroupOf(i) : InitialFiles[j].extension = Flac

\* C28 as claimed: a .wav file whose group also holds a .flac file is gone
\* after a live format pass.
C28_WavIsLossy ==
    FmtLiveDone =>
        \A i \in 1..Len(InitialFiles) : WavWithFlac(i) => ~IsFile(fs, InitialFiles[i].path)

\* C28 as amended: .flac is the one extension that makes a group eligible and
\* .mp3 the one extension that is deleted: every file a step of the format
\* pass removes is a .mp3 file grouped with a .flac file, and a .wav file
\* grouped with a .flac file is never removed.
C28_OnlyMp3IsLossy ==
    [][task = "fmt" =>
          \A i \in 1..Len(InitialFiles) :
             /\ (IsFile(fs, InitialFiles[i].path) /\ ~IsFile(fs', InitialFiles[i].path))
                   => /\ InitialFiles[i].extension = Mp3
                      /\ \E j \in FmtGroupOf(i) : InitialFiles[j].extension = Flac
             /\ WavWithFlac(i) => IsFile(fs', InitialFiles[i].path)]_vars

\* a live pass has ended that deleted a .mp3 file from a group in which a
\* .wav file and a .flac file are left
C28_Witness ==
    /\ FmtLiveDone
    /\ \E i, m \in 1..Len(InitialFiles) :
          /\ WavWithFlac(i)
          /\ m \in FmtGroupOf(i)
          /\ InitialFiles[m].extension = Mp3
          /\ ~IsFile(fs, InitialFiles[m].path)
          /\ IsFile(fs, InitialFiles[i].path)


-----------------------------------------------------------------------------
(* The audio scan of a directory given by the caller: getAudioFilesInDirectory *)

\* traverseDirectory(dirPath, ...) with the case correction of its lines
\* 65-76: the paths visited, none when the directory is not found
traverseDirectoryFrom(f, dirPath) ==
    LET correctedPath == getCorrectCasePath(f, dirPath)
        start == IF existsSync(f, dirPath) THEN dirPath ELSE correctedPath
        found == existsSync(f, dirPath)
                    \/ (existsSync(f, correctedPath) /\ correctedPath # dirPath)
    IN IF found /\ IsDir(f, start) THEN traverseDirectory(f, start) ELSE <<>>

\* the records the callback of getAudioFilesInDirectory collects over a walk
AudioFilesOf(f, visited) ==
    LET audio == SelectSeq(visited, LAMBDA p : ~IsDir(f, p) /\ isAudioFile(basename(p)))
    IN [i \in 1..Len(audio) |-> AudioFile(f, audio[i])]

\* a call of getAudioFilesInDirectory on a directory that exists, that exists
\* under another case, or that does not exist
InitScan ==
    /\ \E D \in SUBSET EmptyDirCandidates, F \in SUBSET EmptyFileCandidates :
          /\ D \cup F # {}
          /\ Cardinality(D) + Cardinality(F) <= MaxFiles
          /\ fs = Tree(F, [p \in F |-> 1], D, <<>>)
    /\ fs0 = fs
    /\ lsReverse \in BOOLEAN
    /\ dryRun = FALSE
    /\ skipPaths = {}
    /\ queue = <<>>
    /\ task = "scan"
    /\ pc = "count"
    /\ files = <<>>
    /\ \E root \in WalkRoots : work = <<[dir |-> root, entries |-> <<>>]>>
    /\ cur = NoGroup
    /\ lists = NoLists
    /\ counters = ZeroCounters
    /\ results = {}
    /\ merges = <<>>
    /\ dirSize = 0
    /\ cleanupInProgress \in BOOLEAN
    /\ interrupted = ~cleanupInProgress
    /\ unreadable = {}
    /\ undeletable = {}
    /\ errorLogged = FALSE

\* audio.ts lines 43-44 with countItems (file.ts lines 26-27): the check of
\* the flag, then the stat of the directory as given, made outside the try
\* block of countItems: the error of a missing directory rejects the scan
ScanCount ==
    /\ task = "scan" /\ pc = "count"
    /\ pc' = IF ~cleanupInProgress THEN "halted"
             ELSE IF ~existsSync(fs, Head(work).dir) THEN "threw"
             ELSE "walk"
    /\ UNCHANGED <<fs, fs0, lsReverse, dryRun, skipPaths, queue, task, files, work,
                   cur, lists, counters, results, merges, dirSize, cleanupInProgress,
                   interrupted, unreadable, undeletable, errorLogged>>

\* audio.ts lines 50-69: the walk that collects the records, and the return
ScanWalk ==
    /\ task = "scan" /\ pc = "walk"
    /\ files' = AudioFilesOf(fs, traverseDirectoryFrom(fs, Head(work).dir))
    /\ pc' = "done"
    /\ UNCHANGED <<fs, fs0, lsReverse, dryRun, skipPaths, queue, task, work,
                   cur, lists, counters, results, merges, dirSize, cleanupInProgress,
                   interrupted, unreadable, undeletable, errorLogged>>

NextScan == ScanCount \/ ScanWalk

SpecScan == InitScan /\ [][NextScan]_vars

\* the directory given to the scan does not exist as given, and a directory
\* exists under its case-corrected form
RootNeedsCorrection ==
    LET given == Head(work).dir
    IN /\ ~existsSync(fs, given)
       /\ IsDir(fs, getCorrectCasePath(fs, given))

\* C29: a scan of a directory that exists only under a case-corrected form
\* returns the audio records found under the corrected directory; it neither
\* raises an error nor returns an empty inventory where audio files exist.
C29_CaseCorrectedRootIsScanned ==
    (task = "scan" /\ pc \notin {"count", "walk"} /\ cleanupInProgress
        /\ RootNeedsCorrection)
       => /\ pc = "done"
          /\ files = AudioFilesOf(fs, traverseDirectory(fs,
                                         getCorrectCasePath(fs, Head(work).dir)))

\* a scan of a directory that exists as given returns the records under it
ScanOfExistingRoot ==
    (task = "scan" /\ pc \notin {"count", "walk"} /\ cleanupInProgress
        /\ IsDir(fs, Head(work).dir))
       => /\ pc = "done"
          /\ files = AudioFilesOf(fs, traverseDirectory(fs, Head(work).dir))


-----------------------------------------------------------------------------
(* What the format resolver leaves alone *)

\* initial file i is outside the reach of the format pass: it is a .flac
\* file, or no file of its group is one
FmtProtected(i) ==
    \/ InitialFiles[i].extension = Flac
    \/ \A j \in FmtGroupOf(i) : InitialFiles[j].extension # Flac

\* C30: in every state of a live format pass, every .flac file and every file
\* of a group without a .flac file is where it was at the start, with the
\* size and the content it had.
C30_FormatPassFrame ==
    (task = "fmt" /\ ~dryRun) =>
        \A i \in 1..Len(InitialFiles) :
            FmtProtected(i) =>
               /\ IsFile(fs, InitialFiles[i].path)
               /\ fs[InitialFiles[i].path] = fs0[InitialFiles[i].path]

\* a live pass has ended that deleted a .mp3 file and left in place a .flac
\* file and a .mp3 file of a group without a .flac file
C30_Witness ==
    /\ FmtLiveDone
    /\ fs # fs0
    /\ \E i, j \in 1..Len(InitialFiles) :
          /\ InitialFiles[i].extension = Flac
          /\ InitialFiles[j].extension = Mp3
          /\ FmtProtected(j)
          /\ IsFile(fs, InitialFiles[i].path)
          /\ IsFile(fs, InitialFiles[j].path)


-----------------------------------------------------------------------------
(* The format resolver over the three recognized extensions *)

FmtExtensionCandidates ==
    LET A == <<"A">>
        B == <<"B">>
    IN {<<A, <<"e">> \o Flac>>,
        <<A, <<"E">> \o Mp3>>,
        <<A, <<"e">> \o Wav>>,
        <<B, <<"e">> \o Mp3>>}

\* cleanupMp3FlacCommand over files of one name that differ in extension
\* and directory
InitFmtExtensions ==
    /\ \E F \in SUBSET FmtExtensionCandidates :
          /\ F # {} /\ Cardinality(F) <= MaxFiles
          /\ \E sz \in [F -> 1..MaxSize] : fs = Tree(F, sz, {}, <<>>)
    /\ lsReverse \in BOOLEAN
    /\ dryRun \in BOOLEAN
    /\ skipPaths = {}
    /\ dirSize = 0
    /\ unreadable = {}
    /\ undeletable = {}
    /\ errorLogged = FALSE
    /\ task = "fmt"
    /\ InitCommon

SpecFmtExtensions == InitFmtExtensions /\ [][NextFmt]_vars

=============================================================================
